---- MODULE Spec2Model ----
(***************************************************************************)
(* Coordination ledger of the paytm-designocl pipeline:                    *)
(* migration_store.py (file-locked ledger), details_producer.py (append),  *)
(* the stage consumers (claim -> process -> set status, finalize pass).    *)
(*                                                                         *)
(* A status value is a record [tag, keys]: tag "null" is JSON null,       *)
(* "I" the in-progress marker, "NA" the no-data marker, "map" a mapping   *)
(* sub-item-id -> timestamp of which the model keeps the key set.          *)
(* A ledger record keeps Ticket_ID and the three stage fields; the fields  *)
(* Created_when / Created_by are never read by the store and are left out. *)
(***************************************************************************)
EXTENDS Integers, Sequences, FiniteSets, TLC

\* ---- bounds ----
MaxTicket == 2
MaxBatch == 2
MaxSubItems == 1
MaxEmptyChecks == 2
MaxCount == 61
MaxPipelineRecords == 1 \* records of the ledger the three consumers of a pipeline run start on
MaxThreshold == 3
MaxListed == 2
MaxWaitPolls == 2

TicketIds == 1..MaxTicket
SubItemIds == 1..MaxSubItems

\* ---- migration_store.py field names ----
ATTACHMENTS_FIELD == "Ticket Attachments"
CONVERSATIONS_FIELD == "Conversations"
CONVERSATION_ATTACHMENTS_FIELD == "Conversation Attachments"
Stages == {ATTACHMENTS_FIELD, CONVERSATIONS_FIELD, CONVERSATION_ATTACHMENTS_FIELD}

\* ---- status values ----
Unset == [tag |-> "null", keys |-> {}]
InProgress == [tag |-> "I", keys |-> {}]
Empty == [tag |-> "NA", keys |-> {}]
Done(K) == [tag |-> "map", keys |-> K]
KeyError == [tag |-> "KeyError", keys |-> {}]

Mappings == {Done(K) : K \in (SUBSET SubItemIds) \ {{}}}
Outcomes == {Empty} \cup Mappings
IsFinal(v) == v.tag \in {"NA", "map"}

\* details_producer.make_migration_entry: a skeleton record, all stages null
make_migration_entry(ticket_id) ==
    [f \in {"Ticket_ID"} \cup Stages |-> IF f = "Ticket_ID" THEN ticket_id ELSE Unset]

\* the ids of a list of records, in order
Ids(records) == [i \in 1..Len(records) |-> records[i]["Ticket_ID"]]

\* an isdigit() test that no id passes: the set of seen ids starts empty
IsDigitNever(n) == FALSE

\* str(Ticket_ID).isdigit(): the decimal text of an integer is all digits
\* exactly when the integer is not negative
IsDigit(n) == n >= 0

\* ---- the ledger document ----
\* The document is missing until the first write; a write replaces it whole
\* (temporary file, then rename).
\* json is what the text of the file is: "array" for a JSON array (its
\* records kept), "empty" for blank text, "invalid" for text json.loads
\* rejects, "object" for valid JSON that is not an array (a single record
\* as a JSON object, kept in records).
NoDocument == [exists |-> FALSE, json |-> "none", records |-> <<>>]
EmptyText == [exists |-> TRUE, json |-> "empty", records |-> <<>>]
InvalidText == [exists |-> TRUE, json |-> "invalid", records |-> <<>>]
NotAnArray == [exists |-> TRUE, json |-> "object", records |-> <<make_migration_entry(1)>>]

\* a read without the isinstance(data, list) test, which takes a single
\* object for a ledger of one record
_read_records_any_json(doc) == doc.records

_read_records_unlocked(doc) ==
    IF ~doc.exists THEN <<>>
    ELSE IF doc.json = "empty" THEN <<>>
    ELSE IF doc.json = "invalid" THEN <<>>
    ELSE IF doc.json = "array" THEN doc.records
    ELSE <<>>

\* the document a completed write leaves at its target
_write_records_unlocked(records) == [exists |-> TRUE, json |-> "array", records |-> records]

\* tmp = MIGRATION_JSON_PATH.with_suffix(suffix + ".tmp")
MIGRATION_JSON_PATH == <<"migration", "ticket_details.json">>

\* a write that opens the ledger path itself
tmp_path_in_place(path) == path

tmp_path(path) == Append(path, ".tmp")

\* ---- merge_entries: the loop over new_entries ----
\* rec["Ticket_ID"] of an entry without the key raises (KeyError); the loop
\* ends there and the exception leaves merge_entries before the write.
\* the merge loop without seen.add(tid): an id repeated inside the batch is
\* appended each time it occurs
RECURSIVE MergeLoopNoSeenAdd(_, _, _, _)
MergeLoopNoSeenAdd(existing, seen, added, rest) ==
    IF rest = <<>> THEN [records |-> existing, added |-> added, raised |-> FALSE]
    ELSE IF "Ticket_ID" \notin DOMAIN Head(rest)
    THEN [records |-> existing, added |-> added, raised |-> TRUE]
    ELSE LET rec == Head(rest)
             tid == rec["Ticket_ID"]
         IN IF tid \notin seen
            THEN MergeLoopNoSeenAdd(Append(existing, rec), seen, Append(added, tid), Tail(rest))
            ELSE MergeLoopNoSeenAdd(existing, seen, added, Tail(rest))

RECURSIVE MergeLoop(_, _, _, _)
MergeLoop(existing, seen, added, rest) ==
    IF rest = <<>> THEN [records |-> existing, added |-> added, raised |-> FALSE]
    ELSE IF "Ticket_ID" \notin DOMAIN Head(rest)
    THEN [records |-> existing, added |-> added, raised |-> TRUE]
    ELSE LET rec == Head(rest)
             tid == rec["Ticket_ID"]
         IN IF tid \notin seen
            THEN MergeLoop(Append(existing, rec), seen \cup {tid}, Append(added, tid), Tail(rest))
            ELSE MergeLoop(existing, seen, added, Tail(rest))

\* a merge that upserts: the record of an id already present is replaced by
\* the new entry, an absent id is appended
RECURSIVE UpsertLoop(_, _, _)
UpsertLoop(existing, added, rest) ==
    IF rest = <<>> THEN [records |-> existing, added |-> added, raised |-> FALSE]
    ELSE IF "Ticket_ID" \notin DOMAIN Head(rest)
    THEN [records |-> existing, added |-> added, raised |-> TRUE]
    ELSE LET rec == Head(rest)
             hits == {i \in 1..Len(existing) : existing[i]["Ticket_ID"] = rec["Ticket_ID"]}
         IN IF hits = {}
            THEN UpsertLoop(Append(existing, rec), Append(added, rec["Ticket_ID"]), Tail(rest))
            ELSE UpsertLoop([i \in 1..Len(existing) |-> IF i \in hits THEN rec ELSE existing[i]],
                            added, Tail(rest))

merge_entries_upsert(existing, new_entries) == UpsertLoop(existing, <<>>, new_entries)

merge_entries(existing, new_entries) ==
    LET seen == {existing[i]["Ticket_ID"] : i \in {j \in 1..Len(existing) : IsDigit(existing[j]["Ticket_ID"])}}
    IN MergeLoop(existing, seen, <<>>, new_entries)

\* claim_next_null with the test "is None" slackened to "not yet final":
\* a record another worker holds in progress is handed out again
claim_next_null_reclaim(records, field) ==
    LET open == {i \in 1..Len(records) : ~IsFinal(records[i][field])}
    IN IF open = {}
       THEN [records |-> records, tid |-> -1, wrote |-> FALSE]
       ELSE LET i == CHOOSE k \in open : \A j \in open : k <= j
            IN [records |-> [records EXCEPT ![i][field] = InProgress],
                tid |-> records[i]["Ticket_ID"], wrote |-> TRUE]

\* claim_next_null scanning from the end: the last null record is claimed
claim_next_null_last(records, field) ==
    LET nulls == {i \in 1..Len(records) : records[i][field] = Unset}
    IN IF nulls = {}
       THEN [records |-> records, tid |-> -1, wrote |-> FALSE]
       ELSE LET i == CHOOSE k \in nulls : \A j \in nulls : k >= j
            IN [records |-> [records EXCEPT ![i][field] = InProgress],
                tid |-> records[i]["Ticket_ID"], wrote |-> TRUE]

\* ---- claim_next_null_<stage>: first record whose field is null ----
claim_next_null(records, field) ==
    LET nulls == {i \in 1..Len(records) : records[i][field] = Unset}
    IN IF nulls = {}
       THEN [records |-> records, tid |-> -1, wrote |-> FALSE]
       ELSE LET i == CHOOSE k \in nulls : \A j \in nulls : k <= j
            IN [records |-> [records EXCEPT ![i][field] = InProgress],
                tid |-> records[i]["Ticket_ID"], wrote |-> TRUE]

\* set_status without the Ticket_ID test: the first record is overwritten
set_status_first(records, field, ticket_id, value) ==
    IF records = <<>> THEN records
    ELSE [records EXCEPT ![1][field] = value]

\* set_status that takes the record out and appends the updated copy
set_status_reinsert(records, field, ticket_id, value) ==
    LET hits == {i \in 1..Len(records) : records[i]["Ticket_ID"] = ticket_id}
    IN IF hits = {} THEN records
       ELSE LET i == CHOOSE k \in hits : \A j \in hits : k <= j
            IN [k \in 1..Len(records) |->
                   IF k < i THEN records[k]
                   ELSE IF k < Len(records) THEN records[k + 1]
                   ELSE [records[i] EXCEPT ![field] = value]]

\* set_status that writes a new entry with the field set in the record's place
set_status_fresh(records, field, ticket_id, value) ==
    LET hits == {i \in 1..Len(records) : records[i]["Ticket_ID"] = ticket_id}
    IN IF hits = {} THEN records
       ELSE LET i == CHOOSE k \in hits : \A j \in hits : k <= j
            IN [records EXCEPT ![i] = [make_migration_entry(ticket_id) EXCEPT ![field] = value]]

\* ---- set_<stage>_status: overwrite the field of the first record with the id ----
set_status(records, field, ticket_id, value) ==
    LET hits == {i \in 1..Len(records) : records[i]["Ticket_ID"] = ticket_id}
    IN IF hits = {} THEN records
       ELSE LET i == CHOOSE k \in hits : \A j \in hits : k <= j
            IN [records EXCEPT ![i][field] = value]

\* finalize_in_progress with a break after the first resolved record
finalize_in_progress_first(records, field, ev) ==
    LET stuck == {i \in 1..Len(records) : records[i][field] = InProgress}
        first == {i \in stuck : \A j \in stuck : i <= j}
        raised == \E i \in first : ev[records[i]["Ticket_ID"]] = KeyError
        resolved == [i \in 1..Len(records) |->
                        IF i \in first
                        THEN [records[i] EXCEPT ![field] = ev[records[i]["Ticket_ID"]]]
                        ELSE records[i]]
    IN [records |-> IF raised THEN records ELSE resolved,
        updated |-> IF raised THEN 0 ELSE Cardinality(first),
        wrote |-> ~raised /\ first # {},
        raised |-> raised]

\* finalize_in_progress that counts every record it looked at and always
\* rewrites the document
finalize_in_progress_count_all(records, field, ev) ==
    LET stuck == {i \in 1..Len(records) : records[i][field] = InProgress}
        raised == \E i \in stuck : ev[records[i]["Ticket_ID"]] = KeyError
        resolved == [i \in 1..Len(records) |->
                        IF i \in stuck
                        THEN [records[i] EXCEPT ![field] = ev[records[i]["Ticket_ID"]]]
                        ELSE records[i]]
    IN [records |-> IF raised THEN records ELSE resolved,
        updated |-> IF raised THEN 0 ELSE Len(records),
        wrote |-> ~raised,
        raised |-> raised]

\* finalize_in_progress that puts a new entry with the resolved field in the
\* record's place
finalize_in_progress_fresh(records, field, ev) ==
    LET stuck == {i \in 1..Len(records) : records[i][field] = InProgress}
        raised == \E i \in stuck : ev[records[i]["Ticket_ID"]] = KeyError
        resolved == [i \in 1..Len(records) |->
                        IF i \in stuck
                        THEN [make_migration_entry(records[i]["Ticket_ID"])
                                 EXCEPT ![field] = ev[records[i]["Ticket_ID"]]]
                        ELSE records[i]]
    IN [records |-> IF raised THEN records ELSE resolved,
        updated |-> IF raised THEN 0 ELSE Cardinality(stuck),
        wrote |-> ~raised /\ stuck # {},
        raised |-> raised]

\* ---- finalize_in_progress*: resolve every "I" with the evaluator ----
\* ev maps a ticket id to what the evaluator does for it: a mapping, "NA",
\* or an exception.  An exception leaves the critical section before the write.
finalize_in_progress(records, field, ev) ==
    LET stuck == {i \in 1..Len(records) : records[i][field] = InProgress}
        raised == \E i \in stuck : ev[records[i]["Ticket_ID"]] = KeyError
        resolved == [i \in 1..Len(records) |->
                        IF i \in stuck
                        THEN [records[i] EXCEPT ![field] = ev[records[i]["Ticket_ID"]]]
                        ELSE records[i]]
    IN [records |-> IF raised THEN records ELSE resolved,
        updated |-> IF raised THEN 0 ELSE Cardinality(stuck),
        wrote |-> ~raised /\ stuck # {},
        raised |-> raised]

\* ---- the stage's own evaluators (consumer modules) ----
\* The keys each consumer module puts in its OUTPUT_DIRS, and the key its
\* evaluator looks up.
OUTPUT_DIRS(stage) ==
    IF stage = CONVERSATIONS_FIELD THEN {"complete_ticket_data"}
    ELSE {"complete_ticket_data", "attachments"}

EvaluatorDir(stage) ==
    IF stage = ATTACHMENTS_FIELD THEN "ticket_attachments"
    ELSE IF stage = CONVERSATIONS_FIELD THEN "conversations"
    ELSE "conversation_attachments"

\* evaluate_status / evaluate_conversation_status /
\* evaluate_conversation_attachment_status: listing is the set of ids found
\* in the ticket's per-item file (empty: file missing, empty or unreadable).
\* The directory lookup happens before the try block.
\* An entry of the file without an 'id' (or with a falsy one) is listed as NoId;
\* the comprehension keeps the entries "if att.get('id')".
NoId == 0

evaluate_status(stage, listing) ==
    IF EvaluatorDir(stage) \notin OUTPUT_DIRS(stage) THEN KeyError
    ELSE IF listing = {} THEN Empty ELSE Done(listing \ {NoId})

\* ---- processes ----
Producer == "details_producer"
Workers == {"w1", "w2", "w3", "w4"}
Mains == {"attachments_consumer#1", "attachments_consumer#2", "conversations_consumer",
          "conversation_attachments_consumer"}
Finalizer == "finalize_client"
\* orchestrate_multithread_extraction.py: the main thread and the threads of
\* attach_executor
OrchMain == "orchestrator"
OrchWorkers == {"o1"}
OrchThreads == {OrchMain} \cup OrchWorkers
Procs == {Producer, Finalizer} \cup Workers \cup Mains \cup OrchThreads

\* the consumer process (pool) a worker thread belongs to
poolOf(w) ==
    IF w = "w1" THEN "attachments_consumer#1"
    ELSE IF w = "w2" THEN "attachments_consumer#2"
    ELSE IF w = "w3" THEN "conversations_consumer"
    ELSE "conversation_attachments_consumer"

\* the stage a consumer process works on
stageOf(m) ==
    IF m = "conversations_consumer" THEN CONVERSATIONS_FIELD
    ELSE IF m = "conversation_attachments_consumer" THEN CONVERSATION_ATTACHMENTS_FIELD
    ELSE ATTACHMENTS_FIELD

PoolProcs(m) == {m} \cup {w \in Workers : poolOf(w) = m}

\* what the producer hands to merge_entries: the entries of one batch, in
\* completion order, possibly with a repeated id
Batches == UNION {[1..n -> TicketIds] : n \in 1..MaxBatch}
Entries(ids) == [i \in 1..Len(ids) |-> make_migration_entry(ids[i])]

\* the ids the finalizer calls its evaluator for
StuckIds(records, field) ==
    {records[i]["Ticket_ID"] : i \in {j \in 1..Len(records) : records[j][field] = InProgress}}

NotCalled == [t \in TicketIds |-> Unset]

\* ---- consumer_termination_helper.CompletionTracker ----
\* the stage names the helper's create_*_worker_loop functions use
StageNames == {"conversations", "attachments", "conversation_attachments"}

DEFAULT_MAX_EMPTY_CHECKS == 20
PRODUCER_RUNNING_FACTOR == 3

\* one flag file for every stage name
flag_file_shared(stage_name) == <<"", "_completion.json">>

\* CompletionTracker.__init__: COMPLETION_FLAGS_DIR / f"{stage_name}_completion.json"
flag_file(stage_name) == <<stage_name, "_completion.json">>

\* what mark_producer_complete writes (the timestamp is left out)
FlagData(stage_name) == [producer_complete |-> TRUE, stage |-> stage_name]

\* mark_producer_complete: write the flag file, replacing an older one
mark_producer_complete(dir, stage_name) ==
    [f \in DOMAIN dir \cup {flag_file(stage_name)} |->
        IF f = flag_file(stage_name) THEN FlagData(stage_name) ELSE dir[f]]

\* cleanup_completion_flag: unlink the flag file if it exists
cleanup_completion_flag(dir, stage_name) ==
    [f \in DOMAIN dir \ {flag_file(stage_name)} |-> dir[f]]

\* is_producer_complete: False without the file, else its producer_complete
is_producer_complete(dir, stage_name) ==
    IF flag_file(stage_name) \notin DOMAIN dir THEN FALSE
    ELSE dir[flag_file(stage_name)].producer_complete

\* should_consumer_stop with the two thresholds exchanged
should_consumer_stop_swapped(dir, stage_name, consecutive_empty_checks, max_empty_checks) ==
    IF is_producer_complete(dir, stage_name)
    THEN consecutive_empty_checks >= max_empty_checks * PRODUCER_RUNNING_FACTOR
    ELSE consecutive_empty_checks >= max_empty_checks

\* should_consumer_stop(consecutive_empty_checks, max_empty_checks)
should_consumer_stop(dir, stage_name, consecutive_empty_checks, max_empty_checks) ==
    IF is_producer_complete(dir, stage_name)
    THEN consecutive_empty_checks >= max_empty_checks
    ELSE consecutive_empty_checks >= max_empty_checks * PRODUCER_RUNNING_FACTOR

NoAnswer == [op |-> "none"]

\* ---- run_pipeline.py ----
PRODUCER_SCRIPT == "details_producer.py"
CONVERSATIONS_SCRIPT == "conversations_consumer.py"
ATTACHMENTS_SCRIPT == "attachments_consumer.py"
CONVERSATION_ATTACHMENTS_SCRIPT == "conversation_attachments_consumer.py"
ConsumerScripts == {CONVERSATIONS_SCRIPT, ATTACHMENTS_SCRIPT, CONVERSATION_ATTACHMENTS_SCRIPT}
Scripts == {PRODUCER_SCRIPT} \cup ConsumerScripts

\* the script a consumer process runs
scriptOf(m) ==
    IF m = "conversations_consumer" THEN CONVERSATIONS_SCRIPT
    ELSE IF m = "conversation_attachments_consumer" THEN CONVERSATION_ATTACHMENTS_SCRIPT
    ELSE ATTACHMENTS_SCRIPT

\* a run_script result taken for good whatever it is
is_none_never(status) == FALSE

\* run_script(...) is None: the process could not be started, or (for the
\* script that is waited for) it ended with a non-zero exit code
is_none(status) == status \in {"start_failed", "exited_fail"}

\* ---- process_one_conversation_attachment ----
\* conversations_status before get_conversations_status has returned
NotRead == [tag |-> "unread", keys |-> {}]

\* get_conversations_status: the Conversations field of the first record
\* with the id, None without such a record
get_conversations_status(records, ticket_id) ==
    LET hits == {i \in 1..Len(records) :
                    "Ticket_ID" \in DOMAIN records[i] /\ records[i]["Ticket_ID"] = ticket_id}
    IN IF hits = {} THEN Unset
       ELSE records[CHOOSE k \in hits : \A j \in hits : k <= j][CONVERSATIONS_FIELD]

\* a stage that never looks at its prerequisite
is_na_never(status) == FALSE

\* if conversations_status == "NA"
is_na(status) == status = Empty

\* ---- attempt_downloads ----
\* before any call of attempt_downloads
NoCall == [list |-> <<>>, disk |-> {}, ok |-> <<>>]
NoResult == [called |-> FALSE, mapping |-> {}, downloads |-> <<>>]

VARIABLES
    ledger,      \* the ledger document
    lock,        \* processes holding the flock on the lock file
    pc,          \* position of every process
    local,       \* the records a process read inside its critical section
    new_entries, \* producer: argument of the running merge_entries
    added,       \* producer: return value of the last merge_entries
    tid,         \* worker: the claimed Ticket_ID, -1 when none
    value,       \* worker: the status it is about to write
    consecutive_empty_checks,
    fin,         \* finalize client: the stage of the running call
    updated,     \* return value of the last finalize call of a process
    evaluated,   \* history: what the evaluator returned in the last finalize call, per id
    claimCount,  \* history: how often claim returned an id, per stage
    written,     \* history: the last status set_status wrote, per stage and id
    shadow,      \* history: the committed operations applied one after another
    swept,       \* history: finalize passes completed for the stage since the last committed claim (0, 1, or 2 for more)
    failed,      \* history: the ids whose process call raised, per stage
    window,      \* history: the last MaxEmptyChecks + 1 results of a worker's claim calls (TRUE: it was -1)
    stop_flag,   \* main() of a consumer: stop_flag[0], shared with its workers
    completion_flags, \* the files of the directory completion_flags: file name -> content
    answer,      \* the last call of a CompletionTracker query: its arguments and its result
    lifecycle,   \* history: the last of mark / cleanup called for a stage name
    conversations_status, \* process_one_conversation_attachment: what get_conversations_status returned
    waited,      \* process_one*: the call has come to the wait for the ticket's complete file
    raw_list,    \* process_one*: raw_list, then the refreshed list (ids of the items that can be downloaded)
    mapping,     \* process_one*: the ids downloaded by the last pass
    pass_ok,     \* history: the ids downloaded by each download pass of the call
    refreshes,   \* history: calls of get_complete_ticket_data made by the call
    tmp_file,    \* the file migration/ticket_details.json.tmp
    peek,        \* what the last reader of the ledger path without the lock found there
    rp,          \* run_pipeline.main: the step it is at
    proc,        \* run_pipeline: the state of the process of each script
    launched,    \* history: the scripts whose process was started, in order
    write_lock,  \* orchestrator: the threads holding write_lock (threading.Lock)
    stop_event,  \* orchestrator: stop_event.is_set()
    otid,        \* orchestrator worker: tid
    ovalue,      \* orchestrator worker: the status it is about to set
    unresolved,  \* history: the ids a worker claimed and has not set a status for
    cid,         \* store client: the ticket_id argument of its call, or the id its claim returned
    cvalue,      \* store client: the value argument of its set-status call
    dl_in,       \* attempt_downloads: the list it is called with, the files on disk, the downloads that succeed
    dl_out,      \* attempt_downloads: the mapping it returned and the downloads it made
    poll,        \* process_one*: the sleeps of 0.5 s made so far in the wait for the complete file
    complete_files \* the tickets whose complete file is on disk

vars == <<ledger, lock, pc, local, new_entries, added, tid, value,
          consecutive_empty_checks, fin, updated, evaluated,
          claimCount, written, shadow, swept, failed, window, stop_flag,
          completion_flags, answer, lifecycle,
          conversations_status, waited, raw_list, mapping, pass_ok, refreshes,
          tmp_file, peek, rp, proc, launched,
          write_lock, stop_event, otid, ovalue, unresolved,
          cid, cvalue, dl_in, dl_out, poll, complete_files>>

producerVars == <<new_entries, added>>
workerVars == <<tid, value, consecutive_empty_checks>>
finVars == <<fin, updated, evaluated>>
histVars == <<claimCount, written, shadow, swept, failed, window>>
trackerVars == <<completion_flags, answer, lifecycle>>
processVars == <<conversations_status, waited, raw_list, mapping, pass_ok, refreshes>>
fsVars == <<tmp_file, peek>>
pipeVars == <<rp, proc, launched>>
orchVars == <<write_lock, stop_event, otid, ovalue, unresolved>>
clientVars == <<cid, cvalue>>
downloadVars == <<dl_in, dl_out>>
waitVars == <<poll, complete_files>>
moreVars == <<clientVars, downloadVars, waitVars>>
otherVars == <<fsVars, pipeVars, orchVars, moreVars>>
sideVars == <<stop_flag, trackerVars, processVars, otherVars>>

InitProcs ==
    /\ lock = {}
    /\ pc = [p \in Procs |-> IF p = Producer THEN "batch"
                             ELSE IF p = Finalizer THEN "idle"
                             ELSE IF p \in Workers THEN "loop"
                             ELSE IF p = OrchMain THEN "o_batch"
                             ELSE IF p \in OrchWorkers THEN "o_top" ELSE "join"]
    /\ local = [p \in Procs |-> <<>>]
    /\ new_entries = <<>>
    /\ added = <<>>
    /\ tid = [w \in Workers |-> -1]
    /\ value = [w \in Workers |-> Unset]
    /\ consecutive_empty_checks = [w \in Workers |-> 0]
    /\ fin = ATTACHMENTS_FIELD
    /\ updated = [p \in Mains \cup {Finalizer} |-> 0]
    /\ evaluated = NotCalled
    /\ claimCount = [s \in Stages |-> [t \in TicketIds |-> 0]]
    /\ written = [s \in Stages |-> [t \in TicketIds |-> Unset]]
    /\ swept = [s \in Stages |-> 0]
    /\ failed = [s \in Stages |-> {}]
    /\ window = [w \in Workers |-> <<>>]
    /\ stop_flag = [m \in Mains |-> FALSE]
    /\ completion_flags = <<>>
    /\ answer = NoAnswer
    /\ lifecycle = [n \in StageNames |-> "new"]
    /\ conversations_status = [w \in Workers |-> NotRead]
    /\ waited = [w \in Workers |-> FALSE]
    /\ raw_list = [w \in Workers |-> {}]
    /\ mapping = [w \in Workers |-> {}]
    /\ pass_ok = [w \in Workers |-> <<>>]
    /\ refreshes = [w \in Workers |-> 0]
    /\ tmp_file = NoDocument
    /\ peek = NoDocument
    /\ rp = "step1"
    /\ proc = [s \in Scripts |-> "not_started"]
    /\ launched = <<>>
    /\ write_lock = {}
    /\ stop_event = FALSE
    /\ otid = [t \in OrchWorkers |-> -1]
    /\ ovalue = [t \in OrchWorkers |-> Unset]
    /\ unresolved = [t \in OrchWorkers |-> {}]
    /\ cid = -1
    /\ cvalue = Unset
    /\ dl_in = NoCall
    /\ dl_out = NoResult
    /\ poll = [w \in Workers |-> 0]
    /\ complete_files = {}

\* the producer and the consumers start together on a fresh directory
Init ==
    /\ InitProcs
    /\ ledger = NoDocument
    /\ shadow = <<>>

\* a lock that excludes nobody (an advisory lock nobody waits for)
CanAcquireAlways(p) == TRUE

\* a lock taken in shared mode (LOCK_SH): it excludes nobody who also asks
\* for the shared mode
CanAcquireShared(p) == p \notin lock

\* ---- FileLock ----
\* fcntl.flock(LOCK_EX) on a fresh open file description: granted only when
\* no other description holds the lock
CanAcquire(p) == lock = {}

\* FileLock.__enter__ followed by the read
Enter(p) ==
    /\ CanAcquire(p)
    /\ lock' = lock \cup {p}
    /\ local' = [local EXCEPT ![p] = _read_records_unlocked(ledger)]

\* an unlock written after the body instead of in __exit__: an exception in
\* the body skips it
ExitOnSuccess(p, exc) ==
    /\ lock' = IF exc THEN lock ELSE lock \ {p}
    /\ local' = [local EXCEPT ![p] = <<>>]

\* an __exit__ that only forgets the handle (self._fh = None): the open file
\* description, and the lock with it, stays
ExitForget(p, exc) ==
    /\ lock' = lock
    /\ local' = [local EXCEPT ![p] = <<>>]

\* FileLock.__exit__(exc_type, exc, tb): unlock and close, whether or not an
\* exception is passing through (exc); the exception goes on to the caller
Exit(p, exc) ==
    /\ lock' = lock \ {p}
    /\ local' = [local EXCEPT ![p] = <<>>]

\* ---- details_producer.main: one merge_entries call per batch ----
MergeEnter ==
    /\ pc[Producer] = "batch"
    /\ \E ids \in Batches : new_entries' = Entries(ids)
    /\ Enter(Producer)
    /\ pc' = [pc EXCEPT ![Producer] = "merge_cs"]
    /\ UNCHANGED <<ledger, added, workerVars, finVars, histVars>>
    /\ UNCHANGED sideVars

MergeCommit ==
    /\ pc[Producer] = "merge_cs"
    /\ LET r == merge_entries(local[Producer], new_entries)
       IN /\ ledger' = IF r.raised THEN ledger ELSE _write_records_unlocked(r.records)
          /\ added' = IF r.raised THEN <<>> ELSE r.added
          /\ shadow' = IF r.raised THEN shadow ELSE merge_entries(shadow, new_entries).records
          /\ Exit(Producer, r.raised)
          /\ pc' = [pc EXCEPT ![Producer] = IF r.raised THEN "raised" ELSE "merged"]
    /\ UNCHANGED <<new_entries, workerVars, finVars, claimCount, written, swept, failed, window>>
    /\ UNCHANGED sideVars

\* ---- a caller that hands merge_entries entries it did not build with
\* make_migration_entry: an entry may lack the Ticket_ID key ----
MalformedEntry == [f \in Stages |-> Unset]
UncheckedBatches ==
    UNION {[1..n -> {make_migration_entry(t) : t \in TicketIds} \cup {MalformedEntry}] :
              n \in 1..MaxBatch}

MergeEnterUnchecked ==
    /\ pc[Producer] = "batch"
    /\ \E entries \in UncheckedBatches : new_entries' = entries
    /\ Enter(Producer)
    /\ pc' = [pc EXCEPT ![Producer] = "merge_cs"]
    /\ UNCHANGED <<ledger, added, workerVars, finVars, histVars>>
    /\ UNCHANGED sideVars

\* the exception of merge_entries is not caught by its caller, which ends
MergeRaised ==
    /\ pc[Producer] = "raised"
    /\ new_entries' = <<>>
    /\ pc' = [pc EXCEPT ![Producer] = "failed"]
    /\ UNCHANGED <<ledger, lock, local, added, workerVars, finVars, histVars>>
    /\ UNCHANGED sideVars

\* the loop that logs the added ids, then on to the next batch
MergeReturn ==
    /\ pc[Producer] = "merged"
    /\ added' = <<>>
    /\ new_entries' = <<>>
    /\ pc' = [pc EXCEPT ![Producer] = "batch"]
    /\ UNCHANGED <<ledger, lock, local, workerVars, finVars, histVars>>
    /\ UNCHANGED sideVars

\* ---- merge_entries with the two steps of _write_records_unlocked apart ----
\* a file whose text is being written: open(..., "w") has emptied it, or a
\* part of the text is in it
PartialTexts == {EmptyText, InvalidText}

\* the file a path names gets a new content
WriteFile(path, doc) ==
    IF path = MIGRATION_JSON_PATH
    THEN ledger' = doc /\ UNCHANGED tmp_file
    ELSE tmp_file' = doc /\ UNCHANGED ledger

\* tmp.write_text(...) under way
MergeWriteBegin ==
    /\ pc[Producer] = "merge_cs"
    /\ ~merge_entries(local[Producer], new_entries).raised
    /\ \E part \in PartialTexts : WriteFile(tmp_path(MIGRATION_JSON_PATH), part)
    /\ pc' = [pc EXCEPT ![Producer] = "write_tmp"]
    /\ UNCHANGED <<lock, local, producerVars, workerVars, finVars, histVars>>
    /\ UNCHANGED <<stop_flag, trackerVars, processVars, pipeVars, orchVars, moreVars, peek>>

\* tmp.write_text(...) returned: the whole text is in the file
MergeWriteEnd ==
    /\ pc[Producer] = "write_tmp"
    /\ WriteFile(tmp_path(MIGRATION_JSON_PATH),
                 _write_records_unlocked(merge_entries(local[Producer], new_entries).records))
    /\ pc' = [pc EXCEPT ![Producer] = "replace"]
    /\ UNCHANGED <<lock, local, producerVars, workerVars, finVars, histVars>>
    /\ UNCHANGED <<stop_flag, trackerVars, processVars, pipeVars, orchVars, moreVars, peek>>

\* tmp.replace(MIGRATION_JSON_PATH), then the end of the with block
MergeReplace ==
    /\ pc[Producer] = "replace"
    /\ IF tmp_path(MIGRATION_JSON_PATH) = MIGRATION_JSON_PATH
       THEN UNCHANGED <<ledger, tmp_file>>
       ELSE ledger' = tmp_file /\ tmp_file' = NoDocument
    /\ added' = merge_entries(local[Producer], new_entries).added
    /\ shadow' = merge_entries(shadow, new_entries).records
    /\ Exit(Producer, FALSE)
    /\ pc' = [pc EXCEPT ![Producer] = "merged"]
    /\ UNCHANGED <<new_entries, workerVars, finVars, claimCount, written, swept, failed, window>>
    /\ UNCHANGED <<stop_flag, trackerVars, processVars, pipeVars, orchVars, moreVars, peek>>

\* the producer is killed inside merge_entries (the kernel drops its flock
\* with its file descriptions) and is started again
ProducerCrash ==
    /\ pc[Producer] \in {"merge_cs", "write_tmp", "replace"}
    /\ lock' = lock \ {Producer}
    /\ local' = [local EXCEPT ![Producer] = <<>>]
    /\ new_entries' = <<>>
    /\ pc' = [pc EXCEPT ![Producer] = "batch"]
    /\ UNCHANGED <<ledger, added, workerVars, finVars, histVars>>
    /\ UNCHANGED sideVars

\* a reader that opens the ledger path without the lock
\* (migration_summary_generator)
ReadPath ==
    /\ peek' = ledger
    /\ peek # ledger
    /\ UNCHANGED <<ledger, lock, pc, local, producerVars, workerVars, finVars, histVars>>
    /\ UNCHANGED <<stop_flag, trackerVars, processVars, pipeVars, orchVars, moreVars, tmp_file>>

NextAtomic ==
    \/ MergeEnter
    \/ MergeWriteBegin
    \/ MergeWriteEnd
    \/ MergeReplace
    \/ MergeReturn
    \/ ProducerCrash
    \/ ReadPath

SpecAtomic == Init /\ [][NextAtomic]_vars

\* ---- run_pipeline.main ----
\* run_script(script, ...): subprocess.run / subprocess.Popen starts the
\* process, or raises and run_script returns None
Launch(at, script, next) ==
    /\ rp = at
    /\ \E ok \in BOOLEAN :
          /\ proc' = [proc EXCEPT ![script] = IF ok THEN "running" ELSE "start_failed"]
          /\ launched' = IF ok THEN Append(launched, script) ELSE launched
    /\ rp' = next
    /\ UNCHANGED <<ledger, lock, pc, local, producerVars, workerVars, finVars, histVars>>
    /\ UNCHANGED <<stop_flag, trackerVars, processVars, fsVars, orchVars, moreVars>>

\* main takes the step from at to ok or to "failed" (return 1)
Decide(at, failed_, ok) ==
    /\ rp = at
    /\ rp' = IF failed_ THEN "failed" ELSE ok
    /\ UNCHANGED <<ledger, lock, pc, local, producerVars, workerVars, finVars, histVars>>
    /\ UNCHANGED <<stop_flag, trackerVars, processVars, fsVars, orchVars, moreVars, proc, launched>>

\* STEP 1: run_script('details_producer.py', background=False)
StartProducer == Launch("step1", PRODUCER_SCRIPT, "wait1")

\* details_producer.main returns (0, or 1 when it found nothing to do or
\* could not go on) or ends with an exception
ProducerExit ==
    /\ proc[PRODUCER_SCRIPT] = "running"
    /\ pc[Producer] = "batch"
    /\ \E code \in {"exited_ok", "exited_fail"} : proc' = [proc EXCEPT ![PRODUCER_SCRIPT] = code]
    /\ pc' = [pc EXCEPT ![Producer] = "done"]
    /\ UNCHANGED <<ledger, lock, local, producerVars, workerVars, finVars, histVars>>
    /\ UNCHANGED <<stop_flag, trackerVars, processVars, fsVars, orchVars, moreVars, rp, launched>>

\* subprocess.run(..., check=True) has returned or raised; if producer_result
\* is None: return 1
ProducerChecked ==
    /\ proc[PRODUCER_SCRIPT] # "running"
    /\ Decide("wait1", is_none(proc[PRODUCER_SCRIPT]), "step2a")

\* STEP 2: the two consumers of the first wave, started one after the other
StartConversations == Launch("step2a", CONVERSATIONS_SCRIPT, "step2b")
StartAttachments == Launch("step2b", ATTACHMENTS_SCRIPT, "check2")

\* if conversations_process is None or attachments_process is None: return 1
FirstWaveChecked ==
    Decide("check2", is_none(proc[CONVERSATIONS_SCRIPT]) \/ is_none(proc[ATTACHMENTS_SCRIPT]), "step3")

\* STEP 3: the final consumer
StartConversationAttachments == Launch("step3", CONVERSATION_ATTACHMENTS_SCRIPT, "check3")

\* if conv_attachments_process is None: return 1, else return 0
FinalChecked == Decide("check3", is_none(proc[CONVERSATION_ATTACHMENTS_SCRIPT]), "done")

\* the process of a script is running
Running(script) == proc[script] = "running"

\* ---- orchestrate_multithread_extraction.py: its own store on the same
\* file, guarded by a threading.Lock shared by the threads of the process ----
\* load_migration_json: [] for a missing file, a text json.loads rejects, or
\* JSON that is not an array (an empty text is read as '[]')
load_migration_json(doc) ==
    IF ~doc.exists THEN <<>>
    ELSE IF doc.json = "array" THEN doc.records
    ELSE <<>>

\* write_json_atomic(path, data): temporary file, then rename
write_json_atomic(data) == [exists |-> TRUE, json |-> "array", records |-> data]

\* what an orchestrator step leaves alone outside the orchestrator
outsideOrch == <<lock, added, workerVars, finVars, histVars, stop_flag, trackerVars,
                 processVars, fsVars, pipeVars, moreVars>>

\* with lock: followed by load_migration_json(path)
OAcquire(t) ==
    /\ write_lock = {}
    /\ write_lock' = {t}
    /\ local' = [local EXCEPT ![t] = load_migration_json(ledger)]

\* the end of the with block
ORelease(t) ==
    /\ write_lock' = write_lock \ {t}
    /\ local' = [local EXCEPT ![t] = <<>>]

\* main: merge_migration_entries(mig_path, results, write_lock) for a batch
OMergeEnter ==
    /\ pc[OrchMain] = "o_batch"
    /\ \E ids \in Batches : new_entries' = Entries(ids)
    /\ OAcquire(OrchMain)
    /\ pc' = [pc EXCEPT ![OrchMain] = "o_merge_cs"]
    /\ UNCHANGED <<ledger, stop_event, otid, ovalue, unresolved>>
    /\ UNCHANGED outsideOrch

OMergeCommit ==
    /\ pc[OrchMain] = "o_merge_cs"
    /\ ledger' = write_json_atomic(merge_entries(local[OrchMain], new_entries).records)
    /\ new_entries' = <<>>
    /\ ORelease(OrchMain)
    /\ pc' = [pc EXCEPT ![OrchMain] = "o_batch"]
    /\ UNCHANGED <<stop_event, otid, ovalue, unresolved>>
    /\ UNCHANGED outsideOrch

\* main: the batches are done, stop_event.set()
OStop ==
    /\ pc[OrchMain] = "o_batch"
    /\ stop_event' = TRUE
    /\ pc' = [pc EXCEPT ![OrchMain] = "o_join"]
    /\ UNCHANGED <<ledger, local, new_entries, write_lock, otid, ovalue, unresolved>>
    /\ UNCHANGED outsideOrch

\* main: fut.result() for every worker, attach_executor.shutdown(wait=True)
OJoin ==
    /\ pc[OrchMain] = "o_join"
    /\ \A t \in OrchWorkers : pc[t] = "o_exited"
    /\ pc' = [pc EXCEPT ![OrchMain] = "o_sweep"]
    /\ UNCHANGED <<ledger, local, new_entries, orchVars>>
    /\ UNCHANGED outsideOrch

\* finalize_in_progress_attachments: with lock: records = load_migration_json
OSweepRead ==
    /\ pc[OrchMain] = "o_sweep"
    /\ OAcquire(OrchMain)
    /\ pc' = [pc EXCEPT ![OrchMain] = "o_sweep_cs"]
    /\ UNCHANGED <<ledger, new_entries, stop_event, otid, ovalue, unresolved>>
    /\ UNCHANGED outsideOrch

\* the with block ends after the read; records stays with the caller
OSweepRelease ==
    /\ pc[OrchMain] = "o_sweep_cs"
    /\ write_lock' = write_lock \ {OrchMain}
    /\ pc' = [pc EXCEPT ![OrchMain] = "o_evaluate"]
    /\ UNCHANGED <<ledger, local, new_entries, stop_event, otid, ovalue, unresolved>>
    /\ UNCHANGED outsideOrch

\* the loop over records: every "I" gets evaluate_attachment_status(tid);
\* if updated: goes on to the write
OSweepEvaluate ==
    /\ pc[OrchMain] = "o_evaluate"
    /\ \E ev \in [StuckIds(local[OrchMain], ATTACHMENTS_FIELD) -> Outcomes] :
          local' = [local EXCEPT ![OrchMain] =
                       finalize_in_progress(local[OrchMain], ATTACHMENTS_FIELD, ev).records]
    /\ pc' = [pc EXCEPT ![OrchMain] =
                 IF StuckIds(local[OrchMain], ATTACHMENTS_FIELD) # {} THEN "o_sweep_write"
                 ELSE "o_done"]
    /\ UNCHANGED <<ledger, new_entries, orchVars>>
    /\ UNCHANGED outsideOrch

\* with lock: write_json_atomic(mig_path, records), the records read earlier
OSweepWrite ==
    /\ pc[OrchMain] = "o_sweep_write"
    /\ write_lock = {}
    /\ ledger' = write_json_atomic(local[OrchMain])
    /\ local' = [local EXCEPT ![OrchMain] = <<>>]
    /\ pc' = [pc EXCEPT ![OrchMain] = "o_done"]
    /\ UNCHANGED <<new_entries, orchVars>>
    /\ UNCHANGED outsideOrch

\* attachments_worker_loop: while True: if stop_event.is_set():
OTop(t) ==
    /\ pc[t] = "o_top"
    /\ pc' = [pc EXCEPT ![t] = IF stop_event THEN "o_drain" ELSE "o_claim"]
    /\ UNCHANGED <<ledger, local, new_entries, orchVars>>
    /\ UNCHANGED outsideOrch

\* tid = claim_next_null_attachments(mig_path, lock), in the drain branch
\* ("o_drain") or after it ("o_claim")
OClaimEnter(t) ==
    /\ pc[t] \in {"o_drain", "o_claim"}
    /\ OAcquire(t)
    /\ pc' = [pc EXCEPT ![t] = IF pc[t] = "o_drain" THEN "o_drain_cs" ELSE "o_claim_cs"]
    /\ UNCHANGED <<ledger, new_entries, stop_event, otid, ovalue, unresolved>>
    /\ UNCHANGED outsideOrch

\* the claim returns.  In the drain branch -1 ends the worker and an id
\* falls through to the claim below it; there -1 sleeps and continues, an id
\* goes on to the downloads
OClaimCommit(t) ==
    /\ pc[t] \in {"o_drain_cs", "o_claim_cs"}
    /\ LET r == claim_next_null(local[t], ATTACHMENTS_FIELD)
       IN /\ ledger' = IF r.wrote THEN write_json_atomic(r.records) ELSE ledger
          /\ otid' = [otid EXCEPT ![t] = r.tid]
          /\ unresolved' = [unresolved EXCEPT ![t] = IF r.tid = -1 THEN @ ELSE @ \cup {r.tid}]
          /\ pc' = [pc EXCEPT ![t] =
                       IF pc[t] = "o_drain_cs"
                       THEN (IF r.tid = -1 THEN "o_exited" ELSE "o_claim")
                       ELSE (IF r.tid = -1 THEN "o_top" ELSE "o_process")]
    /\ ORelease(t)
    /\ UNCHANGED <<new_entries, stop_event, ovalue>>
    /\ UNCHANGED outsideOrch

\* the wait for the attachments JSON, its parse and the downloads: "NA" or
\* a mapping
OProcess(t) ==
    /\ pc[t] = "o_process"
    /\ \E o \in Outcomes : ovalue' = [ovalue EXCEPT ![t] = o]
    /\ pc' = [pc EXCEPT ![t] = "o_set"]
    /\ UNCHANGED <<ledger, local, new_entries, write_lock, stop_event, otid, unresolved>>
    /\ UNCHANGED outsideOrch

\* set_attachments_status(mig_path, lock, tid, value)
OSetEnter(t) ==
    /\ pc[t] = "o_set"
    /\ OAcquire(t)
    /\ pc' = [pc EXCEPT ![t] = "o_set_cs"]
    /\ UNCHANGED <<ledger, new_entries, stop_event, otid, ovalue, unresolved>>
    /\ UNCHANGED outsideOrch

OSetCommit(t) ==
    /\ pc[t] = "o_set_cs"
    /\ ledger' = write_json_atomic(set_status(local[t], ATTACHMENTS_FIELD, otid[t], ovalue[t]))
    /\ unresolved' = [unresolved EXCEPT ![t] = @ \ {otid[t]}]
    /\ ovalue' = [ovalue EXCEPT ![t] = Unset]
    /\ ORelease(t)
    /\ pc' = [pc EXCEPT ![t] = "o_top"]
    /\ UNCHANGED <<new_entries, stop_event, otid>>
    /\ UNCHANGED outsideOrch

NextOrchestrator ==
    \/ OMergeEnter
    \/ OMergeCommit
    \/ OStop
    \/ OJoin
    \/ OSweepRead
    \/ OSweepRelease
    \/ OSweepEvaluate
    \/ OSweepWrite
    \/ \E t \in OrchWorkers : OTop(t)
    \/ \E t \in OrchWorkers : OClaimEnter(t)
    \/ \E t \in OrchWorkers : OClaimCommit(t)
    \/ \E t \in OrchWorkers : OProcess(t)
    \/ \E t \in OrchWorkers : OSetEnter(t)
    \/ \E t \in OrchWorkers : OSetCommit(t)

SpecOrchestrator == Init /\ [][NextOrchestrator]_vars

\* ---- worker_loop of a consumer ----
\* a counter of empty checks that a successful claim does not reset
count_empty_check_total(n, claimed) == IF claimed = -1 THEN n + 1 ELSE n

\* a counter that is never advanced
count_empty_check_never(n, claimed) == 0

\* consecutive_empty_checks after a claim call returned claimed: one more
\* for -1, back to 0 when work was found
count_empty_check(n, claimed) == IF claimed = -1 THEN n + 1 ELSE 0

\* the last MaxEmptyChecks + 1 entries of a list of results
LastResults(q) ==
    IF Len(q) <= MaxEmptyChecks + 1 THEN q ELSE SubSeq(q, Len(q) - MaxEmptyChecks, Len(q))

\* a worker that looks at the flag wherever it is outside the store
StopExitAnywhere(w) ==
    /\ pc[w] \in {"loop", "process", "wait", "pass1", "refresh", "pass2", "set", "except"}
    /\ stop_flag[poolOf(w)]
    /\ pc' = [pc EXCEPT ![w] = "exited"]
    /\ UNCHANGED <<ledger, lock, local, producerVars, workerVars, finVars, histVars, stop_flag>>
    /\ UNCHANGED <<trackerVars, processVars, otherVars>>

\* while not stop_flag[0]: a worker at the top of its loop sees the flag set
StopExit(w) ==
    /\ pc[w] = "loop"
    /\ stop_flag[poolOf(w)]
    /\ pc' = [pc EXCEPT ![w] = "exited"]
    /\ UNCHANGED <<ledger, lock, local, producerVars, workerVars, finVars, histVars, stop_flag>>
    /\ UNCHANGED <<trackerVars, processVars, otherVars>>

\* main(): KeyboardInterrupt while it waits for its workers
KeyboardInterrupt(m) ==
    /\ pc[m] = "join"
    /\ ~stop_flag[m]
    /\ stop_flag' = [stop_flag EXCEPT ![m] = TRUE]
    /\ UNCHANGED <<ledger, lock, local, pc, producerVars, workerVars, finVars, histVars>>
    /\ UNCHANGED <<trackerVars, processVars, otherVars>>

\* claim_next_null_<stage>(): enter the critical section
ClaimEnter(w) ==
    /\ pc[w] = "loop"
    /\ ~stop_flag[poolOf(w)]
    /\ Enter(w)
    /\ pc' = [pc EXCEPT ![w] = "claim_cs"]
    /\ UNCHANGED <<ledger, producerVars, workerVars, finVars, histVars>>
    /\ UNCHANGED sideVars

\* process_one*(tid) is entered with its own locals
FreshCall(w) ==
    /\ conversations_status' = [conversations_status EXCEPT ![w] = NotRead]
    /\ waited' = [waited EXCEPT ![w] = FALSE]
    /\ raw_list' = [raw_list EXCEPT ![w] = {}]
    /\ mapping' = [mapping EXCEPT ![w] = {}]
    /\ pass_ok' = [pass_ok EXCEPT ![w] = <<>>]
    /\ refreshes' = [refreshes EXCEPT ![w] = 0]

\* claim_next_null_<stage>() returns; the loop counts an empty check or
\* goes on to process the claimed ticket
ClaimCommit(w) ==
    /\ pc[w] = "claim_cs"
    /\ LET stage == stageOf(poolOf(w))
           r == claim_next_null(local[w], stage)
       IN /\ ledger' = IF r.wrote THEN _write_records_unlocked(r.records) ELSE ledger
          /\ tid' = [tid EXCEPT ![w] = r.tid]
          /\ shadow' = claim_next_null(shadow, stage).records
          /\ consecutive_empty_checks' =
                [consecutive_empty_checks EXCEPT ![w] = count_empty_check(@, r.tid)]
          /\ window' = [window EXCEPT ![w] = LastResults(Append(@, r.tid = -1))]
          /\ IF r.tid = -1
             THEN /\ pc' = [pc EXCEPT ![w] =
                        IF count_empty_check(consecutive_empty_checks[w], r.tid) >= MaxEmptyChecks
                        THEN "exited" ELSE "loop"]
                  /\ UNCHANGED <<claimCount, swept>>
             ELSE /\ pc' = [pc EXCEPT ![w] = "process"]
                  /\ claimCount' = [claimCount EXCEPT ![stage][r.tid] = @ + 1]
                  /\ swept' = [swept EXCEPT ![stage] = 0]
          /\ IF r.tid = -1
             THEN UNCHANGED processVars
             ELSE FreshCall(w)
    /\ Exit(w, FALSE)
    /\ UNCHANGED <<producerVars, value, finVars, written, failed>>
    /\ UNCHANGED <<stop_flag, trackerVars, otherVars>>

\* a handler that only logs the exception: the field is written back as it is
status_to_set_logged(w) == IF pc[w] = "except_cs" THEN InProgress ELSE value[w]

\* the status a worker writes: the outcome of process_one*, or the literal
\* "NA" of the except clause of worker_loop
status_to_set(w) == IF pc[w] = "except_cs" THEN Empty ELSE value[w]

\* a worker_loop without the try/except: the exception of process_one* ends
\* the worker with the item still claimed
ProcessUncaught(w) ==
    /\ pc[w] = "process"
    /\ \E o \in Outcomes \cup {KeyError} :
          IF o = KeyError
          THEN /\ pc' = [pc EXCEPT ![w] = "exited"]
               /\ failed' = [failed EXCEPT ![stageOf(poolOf(w))] = @ \cup {tid[w]}]
               /\ UNCHANGED value
          ELSE /\ pc' = [pc EXCEPT ![w] = "set"]
               /\ value' = [value EXCEPT ![w] = o]
               /\ UNCHANGED failed
    /\ UNCHANGED <<ledger, lock, local, producerVars, tid, consecutive_empty_checks,
                   finVars, claimCount, written, shadow, swept, window>>
    /\ UNCHANGED sideVars

\* process_one*(tid) outside the lock: it comes to its final set-status call
\* with a mapping or with "NA", or it raises and worker_loop's except clause
\* takes over
Process(w) ==
    /\ pc[w] = "process"
    /\ \E o \in Outcomes \cup {KeyError} :
          IF o = KeyError
          THEN /\ pc' = [pc EXCEPT ![w] = "except"]
               /\ failed' = [failed EXCEPT ![stageOf(poolOf(w))] = @ \cup {tid[w]}]
               /\ UNCHANGED value
          ELSE /\ pc' = [pc EXCEPT ![w] = "set"]
               /\ value' = [value EXCEPT ![w] = o]
               /\ UNCHANGED failed
    /\ UNCHANGED <<ledger, lock, local, producerVars, tid, consecutive_empty_checks,
                   finVars, claimCount, written, shadow, swept, window>>
    /\ UNCHANGED sideVars

\* set_<stage>_status(tid, value), called at the end of process_one* or by
\* the except clause
SetEnter(w) ==
    /\ pc[w] \in {"set", "except"}
    /\ Enter(w)
    /\ pc' = [pc EXCEPT ![w] = IF pc[w] = "except" THEN "except_cs" ELSE "set_cs"]
    /\ UNCHANGED <<ledger, producerVars, workerVars, finVars, histVars>>
    /\ UNCHANGED sideVars

SetCommit(w) ==
    /\ pc[w] \in {"set_cs", "except_cs"}
    /\ LET stage == stageOf(poolOf(w))
       IN /\ ledger' = _write_records_unlocked(set_status(local[w], stage, tid[w], status_to_set(w)))
          /\ shadow' = set_status(shadow, stage, tid[w], status_to_set(w))
          /\ written' = [written EXCEPT ![stage][tid[w]] = status_to_set(w)]
    /\ Exit(w, FALSE)
    /\ pc' = [pc EXCEPT ![w] = "loop"]
    /\ tid' = [tid EXCEPT ![w] = -1]
    /\ value' = [value EXCEPT ![w] = Unset]
    /\ UNCHANGED <<producerVars, consecutive_empty_checks, finVars, claimCount, swept, failed, window>>
    /\ UNCHANGED sideVars

\* ---- the finalization pass inside its critical section ----
\* results ranges over what the evaluator can return for the ids it is called for
FinalizePass(p, stage, results) ==
    \E ev \in [StuckIds(local[p], stage) -> results] :
       LET r == finalize_in_progress(local[p], stage, ev)
       IN /\ ledger' = IF r.wrote THEN _write_records_unlocked(r.records) ELSE ledger
          /\ shadow' = finalize_in_progress(shadow, stage, ev).records
          /\ updated' = [updated EXCEPT ![p] = r.updated]
          /\ evaluated' = [t \in TicketIds |-> IF t \in DOMAIN ev THEN ev[t] ELSE Unset]
          /\ swept' = [swept EXCEPT ![stage] = IF r.raised THEN @ ELSE IF @ < 2 THEN @ + 1 ELSE @]
          /\ pc' = [pc EXCEPT ![p] = IF r.raised THEN "raised" ELSE "fin_ret"]

\* ---- main() of a consumer: join the workers, then the finalization pass ----
MainFinalizeEnter(m) ==
    /\ pc[m] = "join"
    /\ \A w \in Workers : poolOf(w) = m => pc[w] = "exited"
    /\ Enter(m)
    /\ pc' = [pc EXCEPT ![m] = "fin_cs"]
    /\ UNCHANGED <<ledger, producerVars, workerVars, finVars, histVars>>
    /\ UNCHANGED sideVars

\* finalize_in_progress*(the stage's own evaluator)
MainFinalizeCommit(m) ==
    /\ pc[m] = "fin_cs"
    /\ FinalizePass(m, stageOf(m),
                    {evaluate_status(stageOf(m), listing) : listing \in SUBSET (SubItemIds \cup {NoId})})
    /\ Exit(m, pc'[m] = "raised")
    /\ UNCHANGED <<producerVars, workerVars, fin, claimCount, written, failed, window>>
    /\ UNCHANGED sideVars

\* main() logs the count and returns; an exception of the evaluator has
\* already ended main() ("raised")
MainReturn(m) ==
    /\ pc[m] \in {"fin_ret", "raised"}
    /\ pc' = [pc EXCEPT ![m] = IF pc[m] = "raised" THEN "failed" ELSE "done"]
    /\ updated' = [updated EXCEPT ![m] = 0]
    /\ evaluated' = NotCalled
    /\ UNCHANGED <<ledger, lock, local, producerVars, workerVars, fin, histVars>>
    /\ UNCHANGED sideVars

\* ---- a caller of the store's finalizer whose evaluator returns a mapping
\* or "NA", as the store documents it ----
FinalizeEnter(stage) ==
    /\ pc[Finalizer] = "idle"
    /\ fin' = stage
    /\ Enter(Finalizer)
    /\ pc' = [pc EXCEPT ![Finalizer] = "fin_cs"]
    /\ UNCHANGED <<ledger, producerVars, workerVars, updated, evaluated, histVars>>
    /\ UNCHANGED sideVars

FinalizeCommit ==
    /\ pc[Finalizer] = "fin_cs"
    /\ FinalizePass(Finalizer, fin, Outcomes)
    /\ Exit(Finalizer, pc'[Finalizer] = "raised")
    /\ UNCHANGED <<producerVars, workerVars, fin, claimCount, written, failed, window>>
    /\ UNCHANGED sideVars

\* the call returns its count to the caller
FinalizeReturn ==
    /\ pc[Finalizer] = "fin_ret"
    /\ pc' = [pc EXCEPT ![Finalizer] = "idle"]
    /\ updated' = [updated EXCEPT ![Finalizer] = 0]
    /\ evaluated' = NotCalled
    /\ UNCHANGED <<ledger, lock, local, producerVars, workerVars, fin, histVars>>
    /\ UNCHANGED sideVars

\* ---- a client of the store that calls claim_next_null_<stage>() and
\* set_<stage>_status(ticket_id, value) of any stage, with any id ----
ClientClaimEnter(stage) ==
    /\ pc[Finalizer] = "idle"
    /\ fin' = stage
    /\ Enter(Finalizer)
    /\ pc' = [pc EXCEPT ![Finalizer] = "claim_cs"]
    /\ UNCHANGED <<ledger, producerVars, workerVars, updated, evaluated, histVars>>
    /\ UNCHANGED sideVars

ClientClaimCommit ==
    /\ pc[Finalizer] = "claim_cs"
    /\ LET r == claim_next_null(local[Finalizer], fin)
       IN /\ ledger' = IF r.wrote THEN _write_records_unlocked(r.records) ELSE ledger
          /\ shadow' = claim_next_null(shadow, fin).records
          /\ cid' = r.tid
    /\ Exit(Finalizer, FALSE)
    /\ pc' = [pc EXCEPT ![Finalizer] = "idle"]
    /\ UNCHANGED <<producerVars, workerVars, finVars, claimCount, written, swept, failed, window>>
    /\ UNCHANGED <<stop_flag, trackerVars, processVars, fsVars, pipeVars, orchVars,
                   cvalue, downloadVars, waitVars>>

ClientSetEnter(stage, ticket_id, v) ==
    /\ pc[Finalizer] = "idle"
    /\ fin' = stage
    /\ cid' = ticket_id
    /\ cvalue' = v
    /\ Enter(Finalizer)
    /\ pc' = [pc EXCEPT ![Finalizer] = "set_cs"]
    /\ UNCHANGED <<ledger, producerVars, workerVars, updated, evaluated, histVars>>
    /\ UNCHANGED <<stop_flag, trackerVars, processVars, fsVars, pipeVars, orchVars,
                   downloadVars, waitVars>>

ClientSetCommit ==
    /\ pc[Finalizer] = "set_cs"
    /\ ledger' = _write_records_unlocked(set_status(local[Finalizer], fin, cid, cvalue))
    /\ shadow' = set_status(shadow, fin, cid, cvalue)
    /\ Exit(Finalizer, FALSE)
    /\ pc' = [pc EXCEPT ![Finalizer] = "idle"]
    /\ UNCHANGED <<producerVars, workerVars, finVars, claimCount, written, swept, failed, window>>
    /\ UNCHANGED sideVars

\* ---- callers of a CompletionTracker ----
MarkProducerComplete(stage_name) ==
    /\ completion_flags' = mark_producer_complete(completion_flags, stage_name)
    /\ lifecycle' = [lifecycle EXCEPT ![stage_name] = "marked"]
    /\ UNCHANGED <<ledger, lock, local, pc, producerVars, workerVars, finVars, histVars,
                   stop_flag, answer, processVars, otherVars>>

CleanupCompletionFlag(stage_name) ==
    /\ completion_flags' = cleanup_completion_flag(completion_flags, stage_name)
    /\ lifecycle' = [lifecycle EXCEPT ![stage_name] = "cleaned"]
    /\ UNCHANGED <<ledger, lock, local, pc, producerVars, workerVars, finVars, histVars,
                   stop_flag, answer, processVars, otherVars>>

IsProducerComplete(stage_name) ==
    /\ answer' = [op |-> "is_producer_complete", stage |-> stage_name,
                  result |-> is_producer_complete(completion_flags, stage_name)]
    /\ UNCHANGED <<ledger, lock, local, pc, producerVars, workerVars, finVars, histVars,
                   stop_flag, completion_flags, lifecycle, processVars, otherVars>>

\* should_consumer_stop(n) with the default threshold, or with a threshold given
ShouldConsumerStop(stage_name) ==
    /\ \E n \in 0..MaxCount, max \in (0..MaxThreshold) \cup {DEFAULT_MAX_EMPTY_CHECKS} :
          answer' = [op |-> "should_consumer_stop", stage |-> stage_name,
                     consecutive_empty_checks |-> n, max_empty_checks |-> max,
                     producer_done |-> is_producer_complete(completion_flags, stage_name),
                     result |-> should_consumer_stop(completion_flags, stage_name, n, max)]
    /\ UNCHANGED <<ledger, lock, local, pc, producerVars, workerVars, finVars, histVars,
                   stop_flag, completion_flags, lifecycle, processVars, otherVars>>

\* ---- a consumer process is killed: its threads stop where they are and
\* the operating system drops the flock the process held ----
KillPool(m) ==
    /\ pc[m] \in {"join", "fin_cs"}
    /\ pc' = [p \in Procs |-> IF p \in PoolProcs(m) THEN "dead" ELSE pc[p]]
    /\ lock' = lock \ PoolProcs(m)
    /\ local' = [p \in Procs |-> IF p \in PoolProcs(m) THEN <<>> ELSE local[p]]
    /\ UNCHANGED <<ledger, producerVars, workerVars, finVars, histVars>>
    /\ UNCHANGED sideVars

\* ---- the producer running together with one attachments worker and one
\* conversations worker ----
ConcurrentWorkers == {"w1", "w3"}

Next ==
    \/ MergeEnter
    \/ MergeCommit
    \/ MergeReturn
    \/ \E w \in ConcurrentWorkers : ClaimEnter(w)
    \/ \E w \in ConcurrentWorkers : ClaimCommit(w)
    \/ \E w \in ConcurrentWorkers : Process(w)
    \/ \E w \in ConcurrentWorkers : SetEnter(w)
    \/ \E w \in ConcurrentWorkers : SetCommit(w)

Spec == Init /\ [][Next]_vars

\* ---- every operation of the store on one stage: the producer, one
\* attachments worker and a caller of the finalizer ----
NextStore ==
    \/ MergeEnter
    \/ MergeCommit
    \/ MergeReturn
    \/ ClaimEnter("w1")
    \/ ClaimCommit("w1")
    \/ Process("w1")
    \/ SetEnter("w1")
    \/ SetCommit("w1")
    \/ FinalizeEnter(ATTACHMENTS_FIELD)
    \/ FinalizeCommit
    \/ FinalizeReturn

SpecStore == Init /\ [][NextStore]_vars

\* ---- run_pipeline with the producer and the three consumers it starts,
\* one worker each; a process acts only while it is running ----
PipelineWorkers == {"w1", "w3", "w4"}

NextPipeline ==
    \/ StartProducer
    \/ Running(PRODUCER_SCRIPT) /\ MergeEnter
    \/ Running(PRODUCER_SCRIPT) /\ MergeCommit
    \/ Running(PRODUCER_SCRIPT) /\ MergeReturn
    \/ ProducerExit
    \/ ProducerChecked
    \/ StartConversations
    \/ StartAttachments
    \/ FirstWaveChecked
    \/ StartConversationAttachments
    \/ FinalChecked
    \/ \E w \in PipelineWorkers : Running(scriptOf(poolOf(w))) /\ ClaimEnter(w)
    \/ \E w \in PipelineWorkers : ClaimCommit(w)
    \/ \E w \in PipelineWorkers : Process(w)
    \/ \E w \in PipelineWorkers : SetEnter(w)
    \/ \E w \in PipelineWorkers : SetCommit(w)

SpecPipeline == Init /\ [][NextPipeline]_vars

\* ---- the same operations started on a ledger path that holds no document
\* or one the store cannot read ----
UnreadableDocuments == {NoDocument, EmptyText, InvalidText, NotAnArray}

InitUnreadable ==
    /\ InitProcs
    /\ ledger \in UnreadableDocuments
    /\ shadow = <<>>

SpecUnreadable == InitUnreadable /\ [][NextStore]_vars

\* ---- two attachments consumers started on the ledger the producer left ----
\* (run_pipeline starts the consumers after the producer has finished)
AttachmentPools == {"attachments_consumer#1", "attachments_consumer#2"}
PoolWorkers == {w \in Workers : poolOf(w) \in AttachmentPools}

ProducedLedgers ==
    {Entries(ids) : ids \in {q \in UNION {[1..n -> TicketIds] : n \in 1..MaxTicket} :
                                \A i, j \in 1..Len(q) : i # j => q[i] # q[j]}}

InitPools ==
    /\ InitProcs
    /\ \E records \in ProducedLedgers :
          /\ ledger = _write_records_unlocked(records)
          /\ shadow = records

NextPools ==
    \/ \E w \in PoolWorkers : ClaimEnter(w)
    \/ \E w \in PoolWorkers : ClaimCommit(w)
    \/ \E w \in PoolWorkers : Process(w)
    \/ \E w \in PoolWorkers : SetEnter(w)
    \/ \E w \in PoolWorkers : SetCommit(w)
    \/ \E m \in AttachmentPools : MainFinalizeEnter(m)
    \/ \E m \in AttachmentPools : MainFinalizeCommit(m)
    \/ \E m \in AttachmentPools : MainReturn(m)
    \/ \E m \in AttachmentPools : KillPool(m)
    \/ FinalizeEnter(ATTACHMENTS_FIELD)
    \/ FinalizeCommit
    \/ FinalizeReturn

SpecPools == InitPools /\ [][NextPools]_vars

\* ---- operations that end with an exception inside the critical section:
\* a merge of unchecked entries, and the shutdown sweep of an attachments
\* consumer while a worker of another consumer process holds a claim ----
NextFaults ==
    \/ MergeEnterUnchecked
    \/ MergeCommit
    \/ MergeReturn
    \/ MergeRaised
    \/ \E w \in PoolWorkers : ClaimEnter(w)
    \/ \E w \in PoolWorkers : ClaimCommit(w)
    \/ \E w \in PoolWorkers : Process(w)
    \/ \E w \in PoolWorkers : SetEnter(w)
    \/ \E w \in PoolWorkers : SetCommit(w)
    \/ MainFinalizeEnter("attachments_consumer#1")
    \/ MainFinalizeCommit("attachments_consumer#1")
    \/ MainReturn("attachments_consumer#1")

SpecFaults == Init /\ [][NextFaults]_vars

\* ---- the workers of the attachments stage alone, every one of them
\* scheduled again and again (threads of a pool; a blocked flock is granted
\* once the lock stays free) ----
NextIsolation ==
    \/ \E w \in PoolWorkers : ClaimEnter(w)
    \/ \E w \in PoolWorkers : ClaimCommit(w)
    \/ \E w \in PoolWorkers : Process(w)
    \/ \E w \in PoolWorkers : SetEnter(w)
    \/ \E w \in PoolWorkers : SetCommit(w)

SpecIsolation ==
    /\ InitPools
    /\ [][NextIsolation]_vars
    /\ \A w \in PoolWorkers :
          /\ WF_vars(ClaimEnter(w))
          /\ WF_vars(ClaimCommit(w))
          /\ WF_vars(Process(w))
          /\ WF_vars(SetEnter(w))
          /\ WF_vars(SetCommit(w))

\* ---- one attachments worker polling while the producer appends, and a
\* KeyboardInterrupt in the consumer's main() ----
NextIdle ==
    \/ MergeEnter
    \/ MergeCommit
    \/ MergeReturn
    \/ ClaimEnter("w1")
    \/ ClaimCommit("w1")
    \/ Process("w1")
    \/ SetEnter("w1")
    \/ SetCommit("w1")
    \/ StopExit("w1")
    \/ KeyboardInterrupt("attachments_consumer#1")

SpecIdle == Init /\ [][NextIdle]_vars

\* ---- producers marking and cleaning the flags of three stages, and
\* consumers asking for them ----
NextTracker ==
    \/ \E n \in StageNames : MarkProducerComplete(n)
    \/ \E n \in StageNames : CleanupCompletionFlag(n)
    \/ \E n \in StageNames : IsProducerComplete(n)

SpecTracker == Init /\ [][NextTracker]_vars

\* ---- the conversations stage: its producer marks and cleans the flag, a
\* consumer asks whether to stop ----
NextStop ==
    \/ MarkProducerComplete("conversations")
    \/ CleanupCompletionFlag("conversations")
    \/ ShouldConsumerStop("conversations")

SpecStop == Init /\ [][NextStop]_vars

\* ---- process_one and process_one_conversation_attachment, step by step ----
\* the complete file of the ticket as the stage finds it: not there after the
\* wait, not parseable, or holding the stage's attachment entries (by id)
NoFile == [kind |-> "missing", items |-> {}]
MalformedFile == [kind |-> "malformed", items |-> {}]
CompleteFile(items) == [kind |-> "json", items |-> items]
CompleteFiles == {NoFile, MalformedFile} \cup {CompleteFile(items) : items \in SUBSET SubItemIds}

\* get_complete_ticket_data raising, against the listing it returns
RefreshFailed == [kind |-> "raised", items |-> {}]
Refreshed == {RefreshFailed} \cup {CompleteFile(items) : items \in SUBSET SubItemIds}

\* attempt_downloads(attachments_list): the ids of the entries whose file is
\* on disk or whose download_file returned True (ok)
attempt_downloads(attachments_list, ok) == attachments_list \cap ok

\* a refresh made after every first pass
needs_refresh_always(mapping_) == TRUE

\* if not mapping:
needs_refresh(mapping_) == mapping_ = {}

\* the final call without its "if mapping" test
outcome_of_map(mapping_) == Done(mapping_)

\* if mapping: set_status(ticket_id, mapping) else: set_status(ticket_id, "NA")
outcome_of(mapping_) == IF mapping_ = {} THEN Empty ELSE Done(mapping_)

\* conversations_status = get_conversations_status(ticket_id): the lock is
\* taken and the document read
GetStatusEnter(w) ==
    /\ pc[w] = "process"
    /\ stageOf(poolOf(w)) = CONVERSATION_ATTACHMENTS_FIELD
    /\ Enter(w)
    /\ pc' = [pc EXCEPT ![w] = "status_cs"]
    /\ UNCHANGED <<ledger, producerVars, workerVars, finVars, histVars>>
    /\ UNCHANGED sideVars

\* a status read whose with block stays open until the copy of "NA" is set:
\* the lock is still held when set_conversation_attachments_status asks for it
GetStatusReturnHolding(w) ==
    /\ pc[w] = "status_cs"
    /\ LET status == get_conversations_status(local[w], tid[w])
       IN /\ conversations_status' = [conversations_status EXCEPT ![w] = status]
          /\ IF is_na(status)
             THEN /\ pc' = [pc EXCEPT ![w] = "set"]
                  /\ value' = [value EXCEPT ![w] = Empty]
                  /\ UNCHANGED <<lock, local>>
             ELSE /\ pc' = [pc EXCEPT ![w] = "wait"]
                  /\ Exit(w, FALSE)
                  /\ UNCHANGED value
    /\ UNCHANGED <<ledger, producerVars, tid, consecutive_empty_checks, finVars, histVars>>
    /\ UNCHANGED <<stop_flag, trackerVars, otherVars, waited, raw_list, mapping, pass_ok, refreshes>>

\* the status is returned and the lock released; "NA" is copied and the call
\* returns, anything else goes on to the complete file
GetStatusReturn(w) ==
    /\ pc[w] = "status_cs"
    /\ LET status == get_conversations_status(local[w], tid[w])
       IN /\ conversations_status' = [conversations_status EXCEPT ![w] = status]
          /\ IF is_na(status)
             THEN /\ pc' = [pc EXCEPT ![w] = "set"]
                  /\ value' = [value EXCEPT ![w] = Empty]
             ELSE /\ pc' = [pc EXCEPT ![w] = "wait"]
                  /\ UNCHANGED value
    /\ Exit(w, FALSE)
    /\ UNCHANGED <<ledger, producerVars, tid, consecutive_empty_checks, finVars, histVars>>
    /\ UNCHANGED <<stop_flag, trackerVars, otherVars, waited, raw_list, mapping, pass_ok, refreshes>>

\* the wait for the complete file, its parse and the extraction of raw_list;
\* a missing or malformed file and an empty list end the call with "NA"
ReadCompleteFile(w) ==
    /\ \/ pc[w] = "wait"
       \/ pc[w] = "process" /\ stageOf(poolOf(w)) = ATTACHMENTS_FIELD
    /\ waited' = [waited EXCEPT ![w] = TRUE]
    /\ \E file \in CompleteFiles :
          /\ raw_list' = [raw_list EXCEPT ![w] = file.items]
          /\ IF file.items = {}
             THEN /\ pc' = [pc EXCEPT ![w] = "set"]
                  /\ value' = [value EXCEPT ![w] = Empty]
             ELSE /\ pc' = [pc EXCEPT ![w] = "pass1"]
                  /\ UNCHANGED value
    /\ UNCHANGED <<ledger, lock, local, producerVars, tid, consecutive_empty_checks, finVars, histVars>>
    /\ UNCHANGED <<stop_flag, trackerVars, otherVars, conversations_status, mapping, pass_ok, refreshes>>

\* mapping = attempt_downloads(raw_list), outside any try: ticket_dir.mkdir
\* raising leaves process_one* for the except clause of worker_loop
FirstPass(w) ==
    /\ pc[w] = "pass1"
    /\ \E ok \in SUBSET SubItemIds, raises \in BOOLEAN :
          IF raises
          THEN /\ pc' = [pc EXCEPT ![w] = "except"]
               /\ failed' = [failed EXCEPT ![stageOf(poolOf(w))] = @ \cup {tid[w]}]
               /\ UNCHANGED <<value, mapping, pass_ok>>
          ELSE LET m == attempt_downloads(raw_list[w], ok)
               IN /\ mapping' = [mapping EXCEPT ![w] = m]
                  /\ pass_ok' = [pass_ok EXCEPT ![w] = Append(@, m)]
                  /\ IF needs_refresh(m)
                     THEN /\ pc' = [pc EXCEPT ![w] = "refresh"]
                          /\ UNCHANGED value
                     ELSE /\ pc' = [pc EXCEPT ![w] = "set"]
                          /\ value' = [value EXCEPT ![w] = outcome_of(m)]
                  /\ UNCHANGED failed
    /\ UNCHANGED <<ledger, lock, local, producerVars, tid, consecutive_empty_checks,
                   finVars, claimCount, written, shadow, swept, window>>
    /\ UNCHANGED <<stop_flag, trackerVars, otherVars, conversations_status, waited, raw_list, refreshes>>

\* latest = get_complete_ticket_data(ticket_id) inside the try: an exception
\* is logged and mapping stays as the first pass left it
Refresh(w) ==
    /\ pc[w] = "refresh"
    /\ refreshes' = [refreshes EXCEPT ![w] = @ + 1]
    /\ \E latest \in Refreshed :
          IF latest = RefreshFailed
          THEN /\ pc' = [pc EXCEPT ![w] = "set"]
               /\ value' = [value EXCEPT ![w] = outcome_of(mapping[w])]
               /\ UNCHANGED raw_list
          ELSE /\ pc' = [pc EXCEPT ![w] = "pass2"]
               /\ raw_list' = [raw_list EXCEPT ![w] = latest.items]
               /\ UNCHANGED value
    /\ UNCHANGED <<ledger, lock, local, producerVars, tid, consecutive_empty_checks, finVars, histVars>>
    /\ UNCHANGED <<stop_flag, trackerVars, otherVars, conversations_status, waited, mapping, pass_ok>>

\* mapping = attempt_downloads(refreshed) inside the same try, then the
\* final if mapping / else
SecondPass(w) ==
    /\ pc[w] = "pass2"
    /\ \E ok \in SUBSET SubItemIds, raises \in BOOLEAN :
          LET m == IF raises THEN mapping[w] ELSE attempt_downloads(raw_list[w], ok)
          IN /\ mapping' = [mapping EXCEPT ![w] = m]
             /\ pass_ok' = [pass_ok EXCEPT ![w] = Append(@, IF raises THEN {} ELSE m)]
             /\ value' = [value EXCEPT ![w] = outcome_of(m)]
    /\ pc' = [pc EXCEPT ![w] = "set"]
    /\ UNCHANGED <<ledger, lock, local, producerVars, tid, consecutive_empty_checks, finVars, histVars>>
    /\ UNCHANGED <<stop_flag, trackerVars, otherVars, conversations_status, waited, raw_list, refreshes>>

\* ---- the conversations consumer and the conversation-attachments
\* consumer, one worker each, on the ledger the producer left ----
ChainWorkers == {"w3", "w4"}

NextProcess ==
    \/ \E w \in ChainWorkers : ClaimEnter(w)
    \/ \E w \in ChainWorkers : ClaimCommit(w)
    \/ Process("w3")
    \/ GetStatusEnter("w4")
    \/ GetStatusReturn("w4")
    \/ ReadCompleteFile("w4")
    \/ FirstPass("w4")
    \/ Refresh("w4")
    \/ SecondPass("w4")
    \/ \E w \in ChainWorkers : SetEnter(w)
    \/ \E w \in ChainWorkers : SetCommit(w)

SpecProcess == InitPools /\ [][NextProcess]_vars

\* process_one_conversation(tid): conversations is the list found in the
\* complete file (empty: file missing after the wait, malformed, or without
\* conversations); mapping gets the conversations that have an id, and the
\* final if mapping / else decides what is set
ProcessConversation(w) ==
    /\ pc[w] = "process"
    /\ stageOf(poolOf(w)) = CONVERSATIONS_FIELD
    /\ \E conversations \in SUBSET (SubItemIds \cup {NoId}), raises \in BOOLEAN :
          IF raises
          THEN /\ pc' = [pc EXCEPT ![w] = "except"]
               /\ failed' = [failed EXCEPT ![CONVERSATIONS_FIELD] = @ \cup {tid[w]}]
               /\ UNCHANGED <<value, raw_list, mapping>>
          ELSE /\ raw_list' = [raw_list EXCEPT ![w] = conversations]
               /\ mapping' = [mapping EXCEPT ![w] = conversations \ {NoId}]
               /\ value' = [value EXCEPT ![w] = outcome_of(conversations \ {NoId})]
               /\ pc' = [pc EXCEPT ![w] = "set"]
               /\ UNCHANGED failed
    /\ UNCHANGED <<ledger, lock, local, producerVars, tid, consecutive_empty_checks,
                   finVars, claimCount, written, shadow, swept, window>>
    /\ UNCHANGED <<stop_flag, trackerVars, otherVars, conversations_status, waited, pass_ok, refreshes>>

\* ---- the worker path of the attachments and the conversations stage, and
\* the shutdown sweep of an attachments consumer whose workers have left; w2, a worker of a second attachments consumer, claims and
\* is still busy with its item when the sweep runs ----
StoringWorkers == {"w1", "w3"}

NextStored ==
    \/ \E w \in StoringWorkers \cup {"w2"} : ClaimEnter(w)
    \/ \E w \in StoringWorkers \cup {"w2"} : ClaimCommit(w)
    \/ ReadCompleteFile("w1")
    \/ FirstPass("w1")
    \/ Refresh("w1")
    \/ SecondPass("w1")
    \/ ProcessConversation("w3")
    \/ \E w \in StoringWorkers : SetEnter(w)
    \/ \E w \in StoringWorkers : SetCommit(w)
    \/ MainFinalizeEnter("attachments_consumer#1")
    \/ MainFinalizeCommit("attachments_consumer#1")
    \/ MainReturn("attachments_consumer#1")

SpecStored == InitPools /\ [][NextStored]_vars

\* ---- attempt_downloads(attachments_list), entry by entry ----
\* the ids and names an entry of the listing may carry; NoId and NoName stand
\* for a missing or falsy 'id' and 'name'
ListedIds == 1..MaxListed
NoName == ""
Names == {"a?b", "a_b", "c"}

\* download_attachments.sanitize_filename: the characters <>:"/\|?* become
\* "_" (none of Names is longer than 200 characters)
sanitize_filename(name) == IF name = "a?b" THEN "a_b" ELSE name

Listed == [id : ListedIds \cup {NoId}, name : Names \cup {NoName}, url : BOOLEAN]

\* if not (att_id and name and url): continue
is_complete(att) == att.id # NoId /\ att.name # NoName /\ att.url

\* a pass that asks download_file for every complete entry
dest_exists_never(dest, disk) == FALSE

\* dest.exists()
dest_exists(dest, disk) == dest \in disk

\* download_file(url, dest): True with the file written ("ok"); False with
\* the request failed before open(filepath, 'wb') ("failed") or with the
\* stream broken after it ("partial": the file is there)
DownloadResults == {"ok", "failed", "partial"}

\* the for loop from entry i on; st holds the files of the ticket directory,
\* mapping_local and the download_file calls made, each with the files that
\* were there when it was made
RECURSIVE attempt_downloads_loop(_, _, _, _)
attempt_downloads_loop(attachments_list, i, ok, st) ==
    IF i > Len(attachments_list) THEN st
    ELSE LET att == attachments_list[i]
             dest == sanitize_filename(att.name)
         IN IF ~is_complete(att)
            THEN attempt_downloads_loop(attachments_list, i + 1, ok, st)
            ELSE IF dest_exists(dest, st.disk)
            THEN attempt_downloads_loop(attachments_list, i + 1, ok,
                                        [st EXCEPT !.mapping = @ \cup {att.id}])
            ELSE attempt_downloads_loop(attachments_list, i + 1, ok,
                    [disk |-> IF ok[i] = "failed" THEN st.disk ELSE st.disk \cup {dest},
                     mapping |-> IF ok[i] = "ok" THEN st.mapping \cup {att.id} ELSE st.mapping,
                     downloads |-> Append(st.downloads, [item |-> i, disk |-> st.disk])])

\* the listings of a ticket: no two entries with the same id
Listings ==
    {l \in UNION {[1..n -> Listed] : n \in 1..MaxListed} :
        \A i, j \in 1..Len(l) : (i # j /\ l[i].id # NoId) => l[i].id # l[j].id}

storeVars == <<ledger, lock, pc, local, producerVars, workerVars, finVars, histVars>>

\* process_one* comes to mapping = attempt_downloads(raw_list) with a listing,
\* a ticket directory and a server that answers each request in some way
CallDownloads ==
    /\ dl_in = NoCall
    /\ \E l \in Listings, disk \in SUBSET {sanitize_filename(n) : n \in Names} :
          \E ok \in [1..Len(l) -> DownloadResults] :
             dl_in' = [list |-> l, disk |-> disk, ok |-> ok]
    /\ dl_out' = NoResult
    /\ UNCHANGED <<storeVars, stop_flag, trackerVars, processVars, fsVars, pipeVars, orchVars,
                   clientVars, waitVars>>

\* the pass is made and mapping_local returned
RunDownloads ==
    /\ dl_in # NoCall
    /\ ~dl_out.called
    /\ LET st == attempt_downloads_loop(dl_in.list, 1, dl_in.ok,
                                        [disk |-> dl_in.disk, mapping |-> {}, downloads |-> <<>>])
       IN dl_out' = [called |-> TRUE, mapping |-> st.mapping, downloads |-> st.downloads]
    /\ UNCHANGED dl_in
    /\ UNCHANGED <<storeVars, stop_flag, trackerVars, processVars, fsVars, pipeVars, orchVars,
                   clientVars, waitVars>>

NextDownloads == CallDownloads \/ RunDownloads

SpecDownloads == Init /\ [][NextDownloads]_vars

\* ---- the wait of process_one* for the ticket's complete file ----
\* CONFIG['max_wait_for_json_seconds'] in sleeps of 0.5 s: 10 s in
\* attachments_consumer and conversation_attachments_consumer, 30 s in
\* conversations_consumer
max_wait_for_json_polls(stage) ==
    IF stage = CONVERSATIONS_FIELD THEN MaxWaitPolls + 1 ELSE MaxWaitPolls

\* a loop without the test of waited
keeps_waiting_unbounded(w) == tid[w] \notin complete_files

\* while not complete_file.exists() and waited < CONFIG['max_wait_for_json_seconds']
keeps_waiting(w) ==
    /\ tid[w] \notin complete_files
    /\ poll[w] < max_wait_for_json_polls(stageOf(poolOf(w)))

\* details_producer writes ticket_{id}_complete.json
FileAppears ==
    /\ \E t \in TicketIds \ complete_files : complete_files' = complete_files \cup {t}
    /\ UNCHANGED <<storeVars, stop_flag, trackerVars, processVars, fsVars, pipeVars, orchVars,
                   clientVars, downloadVars, poll>>

\* waited = 0.0
WaitBegin(w) ==
    /\ pc[w] = "process"
    /\ pc' = [pc EXCEPT ![w] = "polling"]
    /\ poll' = [poll EXCEPT ![w] = 0]
    /\ UNCHANGED <<ledger, lock, local, producerVars, workerVars, finVars, histVars>>
    /\ UNCHANGED <<stop_flag, trackerVars, processVars, fsVars, pipeVars, orchVars,
                   clientVars, downloadVars, complete_files>>

\* the loop test holds: time.sleep(0.5); waited += 0.5
WaitPoll(w) ==
    /\ pc[w] = "polling"
    /\ keeps_waiting(w)
    /\ poll' = [poll EXCEPT ![w] = @ + 1]
    /\ UNCHANGED <<storeVars, stop_flag, trackerVars, processVars, fsVars, pipeVars, orchVars,
                   clientVars, downloadVars, complete_files>>

\* the loop test fails: the loop is left
WaitExit(w) ==
    /\ pc[w] = "polling"
    /\ ~keeps_waiting(w)
    /\ pc' = [pc EXCEPT ![w] = "polled"]
    /\ UNCHANGED <<ledger, lock, local, producerVars, workerVars, finVars, histVars>>
    /\ UNCHANGED sideVars

\* if not complete_file.exists(): "NA" is set and the call returns; with the
\* file there the call goes on to its parse and its work, which ends with a
\* mapping, with "NA" or with an exception
WaitCheck(w) ==
    /\ pc[w] = "polled"
    /\ IF tid[w] \notin complete_files
       THEN /\ pc' = [pc EXCEPT ![w] = "set"]
            /\ value' = [value EXCEPT ![w] = Empty]
            /\ UNCHANGED failed
       ELSE \E o \in Outcomes \cup {KeyError} :
               IF o = KeyError
               THEN /\ pc' = [pc EXCEPT ![w] = "except"]
                    /\ failed' = [failed EXCEPT ![stageOf(poolOf(w))] = @ \cup {tid[w]}]
                    /\ UNCHANGED value
               ELSE /\ pc' = [pc EXCEPT ![w] = "set"]
                    /\ value' = [value EXCEPT ![w] = o]
                    /\ UNCHANGED failed
    /\ UNCHANGED <<ledger, lock, local, producerVars, tid, consecutive_empty_checks,
                   finVars, claimCount, written, shadow, swept, window>>
    /\ UNCHANGED sideVars

\* an attachments worker and a conversations worker on the ledger the
\* producer left, while complete files may still be appearing.  A worker
\* that can take a step takes one (time.sleep returns); no file has to appear
WaitWorkers == {"w1", "w3"}

NextWait ==
    \/ FileAppears
    \/ \E w \in WaitWorkers : ClaimEnter(w)
    \/ \E w \in WaitWorkers : ClaimCommit(w)
    \/ \E w \in WaitWorkers : WaitBegin(w)
    \/ \E w \in WaitWorkers : WaitPoll(w)
    \/ \E w \in WaitWorkers : WaitExit(w)
    \/ \E w \in WaitWorkers : WaitCheck(w)
    \/ \E w \in WaitWorkers : SetEnter(w)
    \/ \E w \in WaitWorkers : SetCommit(w)

SpecWait ==
    /\ InitPools
    /\ [][NextWait]_vars
    /\ \A w \in WaitWorkers :
          /\ WF_vars(ClaimEnter(w))
          /\ WF_vars(ClaimCommit(w))
          /\ WF_vars(WaitBegin(w))
          /\ WF_vars(WaitPoll(w))
          /\ WF_vars(WaitExit(w))
          /\ WF_vars(WaitCheck(w))
          /\ WF_vars(SetEnter(w))
          /\ WF_vars(SetCommit(w))

\* ---- the producer, a conversations consumer and a conversation-
\* attachments consumer started together on a fresh directory, one worker
\* each, every store call in its two steps.  The producer's for loop over
\* chunked(ticket_ids) is finite: a batch brings at least one ticket no
\* earlier batch brought, and after the last batch main() returns; the
\* ticket list holds MaxPipelineRecords tickets ----
MergeNext ==
    /\ MergeEnter
    /\ Len(new_entries') + Len(local'[Producer]) <= MaxPipelineRecords
    /\ \E i \in 1..Len(new_entries') :
          \A j \in 1..Len(local'[Producer]) :
             local'[Producer][j]["Ticket_ID"] # new_entries'[i]["Ticket_ID"]

BatchesDone ==
    /\ pc[Producer] = "batch"
    /\ pc' = [pc EXCEPT ![Producer] = "done"]
    /\ UNCHANGED <<ledger, lock, local, producerVars, workerVars, finVars, histVars>>
    /\ UNCHANGED sideVars

LockWorkers == {"w3", "w4"}
LockMain == "conversation_attachments_consumer"

NextLock ==
    \/ MergeNext
    \/ MergeCommit
    \/ MergeReturn
    \/ BatchesDone
    \/ \E w \in LockWorkers : ClaimEnter(w)
    \/ \E w \in LockWorkers : ClaimCommit(w)
    \/ Process("w3")
    \/ GetStatusEnter("w4")
    \/ GetStatusReturn("w4")
    \/ ReadCompleteFile("w4")
    \/ FirstPass("w4")
    \/ Refresh("w4")
    \/ SecondPass("w4")
    \/ \E w \in LockWorkers : SetEnter(w)
    \/ \E w \in LockWorkers : SetCommit(w)
    \/ MainFinalizeEnter(LockMain)
    \/ MainFinalizeCommit(LockMain)
    \/ MainReturn(LockMain)

\* fcntl.flock(LOCK_EX) blocks and returns once the lock is free and stays
\* free for the caller; each process makes finitely many requests, so weak
\* fairness of a request is what the blocking call gives.  Every step outside
\* the store (a parse, a download with its timeout) ends.
SpecLock ==
    /\ Init
    /\ [][NextLock]_vars
    /\ WF_vars(MergeNext) /\ WF_vars(MergeCommit) /\ WF_vars(MergeReturn) /\ WF_vars(BatchesDone)
    /\ \A w \in LockWorkers :
          /\ WF_vars(ClaimEnter(w))
          /\ WF_vars(ClaimCommit(w))
          /\ WF_vars(SetEnter(w))
          /\ WF_vars(SetCommit(w))
    /\ WF_vars(Process("w3"))
    /\ WF_vars(GetStatusEnter("w4")) /\ WF_vars(GetStatusReturn("w4"))
    /\ WF_vars(ReadCompleteFile("w4")) /\ WF_vars(FirstPass("w4"))
    /\ WF_vars(Refresh("w4")) /\ WF_vars(SecondPass("w4"))
    /\ WF_vars(MainFinalizeEnter(LockMain))
    /\ WF_vars(MainFinalizeCommit(LockMain))
    /\ WF_vars(MainReturn(LockMain))

\* ---- the two attachment stages, one worker each, on the ledger the
\* producer left ----
DownloadWorkers == {"w1", "w4"}

NextRefresh ==
    \/ \E w \in DownloadWorkers : ClaimEnter(w)
    \/ \E w \in DownloadWorkers : ClaimCommit(w)
    \/ GetStatusEnter("w4")
    \/ GetStatusReturn("w4")
    \/ \E w \in DownloadWorkers : ReadCompleteFile(w)
    \/ \E w \in DownloadWorkers : FirstPass(w)
    \/ \E w \in DownloadWorkers : Refresh(w)
    \/ \E w \in DownloadWorkers : SecondPass(w)
    \/ \E w \in DownloadWorkers : SetEnter(w)
    \/ \E w \in DownloadWorkers : SetCommit(w)

SpecRefresh == InitPools /\ [][NextRefresh]_vars

\* the same two workers, where every store call that has begun goes on to
\* its end and a worker that can begin one does, while the wait for the
\* complete file, a download pass or a refresh may take for ever
SpecBlocked ==
    /\ InitPools
    /\ [][NextRefresh]_vars
    /\ \A w \in DownloadWorkers :
          /\ WF_vars(ClaimEnter(w))
          /\ WF_vars(ClaimCommit(w))
          /\ WF_vars(SetEnter(w))
          /\ WF_vars(SetCommit(w))
    /\ WF_vars(GetStatusEnter("w4"))
    /\ WF_vars(GetStatusReturn("w4"))

\* ---- an attachments consumer and a conversations consumer, one worker
\* each, on the ledger the producer left; either main() may be interrupted.
\* A worker that can take a step takes one: process_one* returns or raises
\* (its wait and its requests are bounded by timeouts) ----
ClaimantWorkers == {"w1", "w3"}

NextClaimant ==
    \/ \E w \in ClaimantWorkers : ClaimEnter(w)
    \/ \E w \in ClaimantWorkers : ClaimCommit(w)
    \/ Process("w3")
    \/ ReadCompleteFile("w1")
    \/ FirstPass("w1")
    \/ Refresh("w1")
    \/ SecondPass("w1")
    \/ \E w \in ClaimantWorkers : SetEnter(w)
    \/ \E w \in ClaimantWorkers : SetCommit(w)
    \/ \E w \in ClaimantWorkers : StopExit(w)
    \/ \E w \in ClaimantWorkers : KeyboardInterrupt(poolOf(w))

SpecClaimant ==
    /\ InitPools
    /\ [][NextClaimant]_vars
    /\ \A w \in ClaimantWorkers :
          /\ WF_vars(ClaimEnter(w))
          /\ WF_vars(ClaimCommit(w))
          /\ WF_vars(SetEnter(w))
          /\ WF_vars(SetCommit(w))
          /\ WF_vars(StopExit(w))
    /\ WF_vars(Process("w3"))
    /\ WF_vars(ReadCompleteFile("w1"))
    /\ WF_vars(FirstPass("w1"))
    /\ WF_vars(Refresh("w1"))
    /\ WF_vars(SecondPass("w1"))

\* ---- the three consumers run_pipeline starts after the producer has
\* ended, one worker each, with main() joining its workers and running the
\* shutdown sweep; nothing is interrupted or killed, and every thread that
\* can take a step takes one ----
CompletionWorkers == {"w1", "w3", "w4"}
CompletionPools == {poolOf(w) : w \in CompletionWorkers}

NextCompletion ==
    \/ \E w \in CompletionWorkers : ClaimEnter(w)
    \/ \E w \in CompletionWorkers : ClaimCommit(w)
    \/ \E w \in CompletionWorkers : Process(w)
    \/ \E w \in CompletionWorkers : SetEnter(w)
    \/ \E w \in CompletionWorkers : SetCommit(w)
    \/ \E m \in CompletionPools : MainFinalizeEnter(m)
    \/ \E m \in CompletionPools : MainFinalizeCommit(m)
    \/ \E m \in CompletionPools : MainReturn(m)

InitCompletion ==
    /\ InitProcs
    /\ \E records \in {r \in ProducedLedgers : Len(r) <= MaxPipelineRecords} :
          /\ ledger = _write_records_unlocked(records)
          /\ shadow = records

SpecCompletion ==
    /\ InitCompletion
    /\ [][NextCompletion]_vars
    /\ \A w \in CompletionWorkers :
          /\ WF_vars(ClaimEnter(w))
          /\ WF_vars(ClaimCommit(w))
          /\ WF_vars(Process(w))
          /\ WF_vars(SetEnter(w))
          /\ WF_vars(SetCommit(w))
    /\ \A m \in CompletionPools :
          /\ WF_vars(MainFinalizeEnter(m))
          /\ WF_vars(MainFinalizeCommit(m))
          /\ WF_vars(MainReturn(m))

\* ---- details_producer and an attachments consumer started together on a
\* fresh directory: the producer appends batch after batch, the consumer's
\* worker polls, main() joins it and runs the shutdown sweep.  Nothing is
\* interrupted, and every process that can take a step takes one ----
CatchUpWorker == "w1"

NextCatchUp ==
    \/ MergeEnter
    \/ MergeCommit
    \/ MergeReturn
    \/ ClaimEnter(CatchUpWorker)
    \/ ClaimCommit(CatchUpWorker)
    \/ Process(CatchUpWorker)
    \/ SetEnter(CatchUpWorker)
    \/ SetCommit(CatchUpWorker)
    \/ MainFinalizeEnter(poolOf(CatchUpWorker))
    \/ MainFinalizeCommit(poolOf(CatchUpWorker))
    \/ MainReturn(poolOf(CatchUpWorker))

SpecCatchUp ==
    /\ Init
    /\ [][NextCatchUp]_vars
    /\ WF_vars(MergeEnter)
    /\ WF_vars(MergeCommit)
    /\ WF_vars(MergeReturn)
    /\ WF_vars(ClaimEnter(CatchUpWorker))
    /\ WF_vars(ClaimCommit(CatchUpWorker))
    /\ WF_vars(Process(CatchUpWorker))
    /\ WF_vars(SetEnter(CatchUpWorker))
    /\ WF_vars(SetCommit(CatchUpWorker))
    /\ WF_vars(MainFinalizeEnter(poolOf(CatchUpWorker)))
    /\ WF_vars(MainFinalizeCommit(poolOf(CatchUpWorker)))
    /\ WF_vars(MainReturn(poolOf(CatchUpWorker)))

\* the client on the ledger the producer left
NextClient ==
    \/ \E stage \in Stages : ClientClaimEnter(stage)
    \/ ClientClaimCommit
    \/ \E stage \in Stages, t \in TicketIds, v \in Outcomes : ClientSetEnter(stage, t, v)
    \/ ClientSetCommit

SpecClient == InitPools /\ [][NextClient]_vars

\* ---- the finalizers of the two attachment stages, called by a client of
\* the store that also claims in these stages and whose evaluator returns a
\* mapping or "NA" or raises (as the evaluators of the consumers do); the
\* ledger is the one the producer left, or one that cannot be read ----
SweepStages == {ATTACHMENTS_FIELD, CONVERSATION_ATTACHMENTS_FIELD}

\* finalize_in_progress*(evaluator) inside its critical section
SweepCommit ==
    /\ pc[Finalizer] = "fin_cs"
    /\ FinalizePass(Finalizer, fin, Outcomes \cup {KeyError})
    /\ Exit(Finalizer, pc'[Finalizer] = "raised")
    /\ UNCHANGED <<producerVars, workerVars, fin, claimCount, written, failed, window>>
    /\ UNCHANGED sideVars

\* the exception of the evaluator has left finalize_in_progress* and reaches
\* the caller
SweepRaised ==
    /\ pc[Finalizer] = "raised"
    /\ pc' = [pc EXCEPT ![Finalizer] = "idle"]
    /\ evaluated' = NotCalled
    /\ UNCHANGED <<ledger, lock, local, producerVars, workerVars, fin, updated, histVars>>
    /\ UNCHANGED sideVars

InitSweep == InitPools \/ InitUnreadable

NextSweep ==
    \/ \E stage \in SweepStages : ClientClaimEnter(stage)
    \/ ClientClaimCommit
    \/ \E stage \in SweepStages : FinalizeEnter(stage)
    \/ SweepCommit
    \/ FinalizeReturn
    \/ SweepRaised

SpecSweep == InitSweep /\ [][NextSweep]_vars

\* the records a reader of the document sees
Records == _read_records_unlocked(ledger)

\* ---- C1 ----
\* C1: at-most-one claim.  Over all claim calls of a stage no Ticket_ID is
\* returned twice, and two workers of a stage never hold the same id; with
\* one Unset record one claimant gets it and the others get -1.
AtMostOneClaim ==
    /\ \A s \in Stages, t \in TicketIds : claimCount[s][t] <= 1
    /\ \A w, v \in Workers :
          (w # v /\ stageOf(poolOf(w)) = stageOf(poolOf(v)) /\ tid[w] # -1)
             => tid[w] # tid[v]

\* one record, two claimants: one holds its id, the other was told -1
OneClaimantWins ==
    /\ Len(Records) = 1
    /\ \E w, v \in PoolWorkers :
          /\ w # v
          /\ pc[w] = "process" /\ tid[w] = Records[1]["Ticket_ID"]
          /\ pc[v] = "exited" /\ tid[v] = -1 /\ consecutive_empty_checks[v] > 0

\* ---- C2 ----
\* C2: no lost updates.  A record is Unset for a stage exactly when no claim
\* call returned its id; a status a worker wrote is the status the ledger
\* holds; and when all workers of the pools have left their loops every
\* record of the stage is resolved.
NoLostUpdates ==
    /\ \A s \in Stages, i \in 1..Len(Records) :
          LET t == Records[i]["Ticket_ID"]
          IN /\ (Records[i][s] = Unset) <=> (claimCount[s][t] = 0)
             /\ written[s][t] # Unset => Records[i][s] = written[s][t]
    /\ \A s \in Stages, t \in TicketIds :
          claimCount[s][t] > 0 => \E i \in 1..Len(Records) : Records[i]["Ticket_ID"] = t
    /\ (\A w \in PoolWorkers : pc[w] = "exited")
          => \A i \in 1..Len(Records) : IsFinal(Records[i][ATTACHMENTS_FIELD])

\* K = MaxTicket records, each claimed once and set to a mapping, all workers gone
AllResolved ==
    /\ Len(Records) = MaxTicket
    /\ \A w \in PoolWorkers : pc[w] = "exited"
    /\ \A i \in 1..Len(Records) :
          /\ Records[i][ATTACHMENTS_FIELD] \in Mappings
          /\ written[ATTACHMENTS_FIELD][Records[i]["Ticket_ID"]] = Records[i][ATTACHMENTS_FIELD]
          /\ claimCount[ATTACHMENTS_FIELD][Records[i]["Ticket_ID"]] = 1

\* ---- C3 ----
\* C3: every read-modify-write is one critical section, so the document is
\* always the result of applying every committed merge, claim and set-status
\* one after another: none of them is discarded by a concurrent one.
NoDiscardedUpdate == Records = shadow

\* a merge appended a record while one stage of an earlier record was
\* resolved and its other stage was claimed
InterleavedCommits ==
    /\ pc[Producer] = "merged" /\ added # <<>>
    /\ Len(Records) = 2
    /\ IsFinal(Records[1][ATTACHMENTS_FIELD])
    /\ Records[1][CONVERSATIONS_FIELD] = InProgress

\* ---- C4 ----
\* the moves a stage field may make
LegalMove(a, b) ==
    \/ a = b
    \/ a = Unset /\ b = InProgress
    \/ a = InProgress /\ IsFinal(b)

\* C4: stage state machine.  In every step each stage field of each record
\* stays as it is, goes from Unset to InProgress, or goes from InProgress to
\* Done or Empty; a Done or Empty field never changes again.
StageStateMachine ==
    [][\A i \in 1..Len(Records) : \A s \in Stages :
          i <= Len(Records') /\ LegalMove(Records[i][s], Records'[i][s])]_vars

\* ---- C5 ----
\* C5: crash recovery at store level.  A finalize call puts evaluator(id) into
\* the stage field of every record that was InProgress, returns how many
\* there were, and leaves no record of the stage InProgress.
FinalizeResolves ==
    [][FinalizeCommit =>
          LET stuck == {i \in 1..Len(Records) : Records[i][fin] = InProgress}
          IN /\ Len(Records') = Len(Records)
             /\ \A i \in stuck :
                   /\ Records'[i][fin] = evaluated'[Records[i]["Ticket_ID"]]
                   /\ Records'[i][fin] \in Outcomes
             /\ updated'[Finalizer] = Cardinality(stuck)
             /\ \A i \in 1..Len(Records') : Records'[i][fin] # InProgress]_vars

\* a finalize call has just resolved two records, one to a mapping and one to "NA"
TwoResolved ==
    /\ pc[Finalizer] = "fin_ret"
    /\ updated[Finalizer] = 2
    /\ \E i, j \in 1..Len(Records) :
          /\ evaluated[Records[i]["Ticket_ID"]] \in Mappings
          /\ Records[i][ATTACHMENTS_FIELD] = evaluated[Records[i]["Ticket_ID"]]
          /\ evaluated[Records[j]["Ticket_ID"]] = Empty
          /\ Records[j][ATTACHMENTS_FIELD] = Empty

\* ---- C6 ----
\* C6: crash recovery at pool level.  When the finalization pass of a
\* consumer's main() ends, no record has the consumer's stage InProgress.
PoolShutdownClean ==
    [][\A m \in AttachmentPools :
          MainFinalizeCommit(m) =>
             \A i \in 1..Len(Records') : Records'[i][stageOf(m)] # InProgress]_vars

\* ---- C7 ----
\* C7: finalizer idempotence.  A finalize pass that follows a completed pass
\* of the same stage with no claim in between returns 0 and leaves the
\* document as it is.
FinalizeIdempotent ==
    [][/\ (FinalizeCommit /\ swept[fin] > 0)
            => (updated'[Finalizer] = 0 /\ ledger' = ledger)
       /\ \A m \in AttachmentPools :
            (MainFinalizeCommit(m) /\ swept[stageOf(m)] > 0)
               => (updated'[m] = 0 /\ pc'[m] = "fin_ret" /\ ledger' = ledger)]_vars

\* a second pass has ended right after a first one that resolved a record
\* no worker ever wrote
SecondPassDone ==
    /\ swept[ATTACHMENTS_FIELD] = 2
    /\ pc[Finalizer] = "fin_ret"
    /\ \E i \in 1..Len(Records) :
          /\ IsFinal(Records[i][ATTACHMENTS_FIELD])
          /\ written[ATTACHMENTS_FIELD][Records[i]["Ticket_ID"]] = Unset

\* ---- C8 ----
\* C8: idempotent append.  A merge changes no field of a record the ledger
\* already holds (a stage that is InProgress, Done or Empty stays so), and
\* after it every id of the merged entries is the id of exactly one record.
IdempotentAppend ==
    [][MergeCommit =>
          /\ Len(Records') >= Len(Records)
          /\ \A i \in 1..Len(Records) : Records'[i] = Records[i]
          /\ \A k \in 1..Len(new_entries) :
                Cardinality({i \in 1..Len(Records') :
                                Records'[i]["Ticket_ID"] = new_entries[k]["Ticket_ID"]}) = 1]_vars

\* a re-run of the producer has merged only ids the ledger already held, one
\* of them with a resolved stage and a claimed stage
RemergeKeepsProgress ==
    /\ pc[Producer] = "merged" /\ added = <<>> /\ new_entries # <<>>
    /\ \E i \in 1..Len(Records) :
          /\ \E k \in 1..Len(new_entries) :
                new_entries[k]["Ticket_ID"] = Records[i]["Ticket_ID"]
          /\ IsFinal(Records[i][ATTACHMENTS_FIELD])
          /\ Records[i][CONVERSATIONS_FIELD] = InProgress

\* ---- C9 ----
\* the positions of a batch that hold the first occurrence of an id absent
\* from the records
FreshPositions(records, entries) ==
    {k \in 1..Len(entries) :
        /\ \A i \in 1..Len(records) : records[i]["Ticket_ID"] # entries[k]["Ticket_ID"]
        /\ \A j \in 1..(k - 1) : entries[j]["Ticket_ID"] # entries[k]["Ticket_ID"]}

\* the n-th smallest member of a set of positions
NthPosition(S, n) == CHOOSE k \in S : Cardinality({j \in S : j < k}) = n - 1

\* C9: merge_entries appends exactly the entries whose id is absent from the
\* ledger (the first occurrence of a repeated id), after all existing
\* records and in input order, and returns exactly the ids it appended.
MergeAppendsAbsent ==
    [][MergeCommit =>
          LET fresh == FreshPositions(Records, new_entries)
              n == Cardinality(fresh)
          IN /\ Len(Records') = Len(Records) + n
             /\ \A i \in 1..Len(Records) : Records'[i] = Records[i]
             /\ \A m \in 1..n :
                   Records'[Len(Records) + m] = new_entries[NthPosition(fresh, m)]
             /\ Len(added') = n
             /\ \A m \in 1..n :
                   added'[m] = new_entries[NthPosition(fresh, m)]["Ticket_ID"]]_vars

\* a batch that repeats one id has been merged into a ledger that held
\* another id: one record appended, one id returned
RepeatedIdMergedOnce ==
    /\ pc[Producer] = "merged"
    /\ Len(new_entries) = 2
    /\ new_entries[1]["Ticket_ID"] = new_entries[2]["Ticket_ID"]
    /\ Len(added) = 1 /\ added[1] = new_entries[1]["Ticket_ID"]
    /\ Len(Records) = 2
    /\ Records[2]["Ticket_ID"] = added[1]

\* ---- C10 ----
\* C10: identity uniqueness.  In every state reached from the empty ledger
\* by merges, claims, set-status and finalize calls, no two records have the
\* same Ticket_ID.
UniqueIdentity ==
    \A i, j \in 1..Len(Records) :
        Records[i]["Ticket_ID"] = Records[j]["Ticket_ID"] => i = j

\* every id is in the ledger, a merge that offered a held id and a new id
\* has appended only the new one, and a finalize call has resolved a record
AllIdsOnceAfterOverlap ==
    /\ Len(Records) = MaxTicket
    /\ pc[Producer] = "merged" /\ Len(new_entries) = 2 /\ Len(added) = 1
    /\ new_entries[1]["Ticket_ID"] # new_entries[2]["Ticket_ID"]
    /\ \E i \in 1..Len(Records) :
          /\ IsFinal(Records[i][ATTACHMENTS_FIELD])
          /\ written[ATTACHMENTS_FIELD][Records[i]["Ticket_ID"]] = Unset

\* ---- C11 ----
\* C11: a claim returns the id of the first record, in ledger order, whose
\* stage field is Unset and sets exactly that field to InProgress; when no
\* record is Unset it returns -1 and leaves the document as it is.
ClaimFirstUnset ==
    [][\A w \in Workers :
          ClaimCommit(w) =>
             LET s == stageOf(poolOf(w))
             IN IF \A i \in 1..Len(Records) : Records[i][s] # Unset
                THEN tid'[w] = -1 /\ ledger' = ledger
                ELSE \E i \in 1..Len(Records) :
                        /\ Records[i][s] = Unset
                        /\ \A j \in 1..(i - 1) : Records[j][s] # Unset
                        /\ tid'[w] = Records[i]["Ticket_ID"]
                        /\ Len(Records') = Len(Records)
                        /\ Records'[i][s] = InProgress
                        /\ \A j \in 1..Len(Records) :
                              \A f \in DOMAIN Records[j] :
                                 (j # i \/ f # s) => Records'[j][f] = Records[j][f]]_vars

\* both records were claimed in ledger order and resolved by the worker, and
\* its next claim found nothing
ClaimAfterResolvedIsNone ==
    /\ Len(Records) = 2
    /\ \A i \in 1..Len(Records) :
          /\ IsFinal(Records[i][ATTACHMENTS_FIELD])
          /\ written[ATTACHMENTS_FIELD][Records[i]["Ticket_ID"]] = Records[i][ATTACHMENTS_FIELD]
    /\ tid["w1"] = -1 /\ consecutive_empty_checks["w1"] > 0

\* ---- C12 ----
\* the positions of a process between FileLock.__enter__ and FileLock.__exit__
CriticalPositions == {"merge_cs", "claim_cs", "set_cs", "except_cs", "fin_cs", "status_cs"}
InCriticalSection == {p \in Procs : pc[p] \in CriticalPositions}

\* C12: mutual exclusion.  At every moment at most one worker, of whatever
\* process, is inside a critical section of the ledger, and it is the one
\* holder of the lock.
MutualExclusion ==
    /\ Cardinality(InCriticalSection) <= 1
    /\ lock = InCriticalSection

\* one worker is inside its critical section while a worker of the other
\* process stands before a set-status it has to wait with
OneInsideOneWaiting ==
    \E w, v \in PoolWorkers :
        /\ poolOf(w) # poolOf(v)
        /\ pc[w] = "claim_cs" /\ lock = {w}
        /\ pc[v] = "set"

\* ---- C13 ----
\* C13: guaranteed lock release.  Whenever a process leaves a critical
\* section, by a return or by an exception raised inside it, the lock is
\* free in the next state, so any other process can acquire it.
ReleasedOnEveryExit ==
    [][\A p \in Procs :
          (pc[p] \in CriticalPositions /\ pc'[p] \notin CriticalPositions)
             => (lock' = {} /\ \A q \in Procs : CanAcquire(q)')]_vars

\* a merge has ended with an exception, the shutdown sweep has ended with an
\* exception, and a worker is inside a critical section it entered later
LockTakenAfterExceptions ==
    /\ pc[Producer] = "failed"
    /\ pc["attachments_consumer#1"] = "failed"
    /\ pc["w2"] = "set_cs" /\ lock = {"w2"}

\* ---- C14 ----
\* C14: per-item exception absorption.  When process raised for the item a
\* worker holds, the worker's write from the except clause sets that item's
\* stage field to Empty, and the worker is back at the top of its loop.
ExceptionAbsorbed ==
    [][\A w \in Workers :
          (SetCommit(w) /\ pc[w] = "except_cs") =>
             /\ tid[w] \in failed[stageOf(poolOf(w))]
             /\ \E i \in 1..Len(Records') :
                   /\ Records'[i]["Ticket_ID"] = tid[w]
                   /\ Records'[i][stageOf(poolOf(w))] = Empty
             /\ pc'[w] = "loop"]_vars

\* the process call for ticket 1 raised, and ticket 1 is Empty in the ledger
\* by the worker's own write
FailedItemIsEmpty ==
    /\ 1 \in failed[ATTACHMENTS_FIELD]
    /\ written[ATTACHMENTS_FIELD][1] = Empty
    /\ \E i \in 1..Len(Records) :
          Records[i]["Ticket_ID"] = 1 /\ Records[i][ATTACHMENTS_FIELD] = Empty
    /\ \A w \in PoolWorkers : tid[w] # 1

TrailingEmpty(q) ==
    CHOOSE k \in 0..Len(q) :
        /\ \A i \in (Len(q) - k + 1)..Len(q) : q[i]
        /\ k = Len(q) \/ ~q[Len(q) - k]

\* C16: idle termination.  A worker has left its loop exactly when its last
\* MaxEmptyChecks claim calls all returned -1, or when the stop flag is set;
\* its counter is the number of -1 results since its last successful claim.
IdleTermination ==
    \A w \in Workers :
        /\ consecutive_empty_checks[w] = TrailingEmpty(window[w])
        /\ pc[w] = "exited" =>
              (stop_flag[poolOf(w)] \/ TrailingEmpty(window[w]) >= MaxEmptyChecks)
        /\ TrailingEmpty(window[w]) >= MaxEmptyChecks => pc[w] = "exited"

\* an empty check, a successful claim, an empty check: two empty results in
\* all, not consecutive, and the worker is still polling
EmptiesNotConsecutive ==
    /\ window["w1"] = <<TRUE, FALSE, TRUE>>
    /\ consecutive_empty_checks["w1"] = 1
    /\ pc["w1"] = "loop" /\ ~stop_flag["attachments_consumer#1"]

\* ---- C17 ----
\* C17: completion-flag threshold.  should_consumer_stop(n, max) returns true
\* exactly when n >= max with the producer marked complete and exactly when
\* n >= 3 * max without the mark; whenever it is true without the mark the same
\* call is true with it; and should_consumer_stop(25) with the default 20
\* is true only with the mark.
StopThreshold ==
    answer.op = "should_consumer_stop" =>
       LET n == answer.consecutive_empty_checks
           max == answer.max_empty_checks
       IN /\ answer.producer_done => (answer.result <=> n >= max)
          /\ ~answer.producer_done => (answer.result <=> n >= 3 * max)
          /\ (~answer.producer_done /\ answer.result) =>
                should_consumer_stop(mark_producer_complete(completion_flags, answer.stage),
                                     answer.stage, n, max)
          /\ (n = 25 /\ max = 20) => (answer.result <=> answer.producer_done)

\* 25 empty checks against the default threshold with the producer marked
\* complete: the consumer stops
StopsAt25WhenComplete ==
    /\ answer.op = "should_consumer_stop"
    /\ answer.consecutive_empty_checks = 25
    /\ answer.max_empty_checks = DEFAULT_MAX_EMPTY_CHECKS
    /\ answer.producer_done /\ lifecycle[answer.stage] = "marked"
    /\ answer.result

\* ---- C18 ----
\* C18: completion-flag lifecycle.  is_producer_complete() of a stage name
\* returns false before any mark, true after a mark (the first or a repeated
\* one), false after a cleanup; and a mark or a cleanup for one stage name
\* changes the answer for no other stage name.
FlagLifecycle ==
    [][/\ \A s \in StageNames :
             IsProducerComplete(s) =>
                (answer'.stage = s /\ (answer'.result <=> lifecycle[s] = "marked"))
       /\ \A s \in StageNames :
             MarkProducerComplete(s) =>
                /\ is_producer_complete(completion_flags', s)
                /\ \A o \in StageNames \ {s} :
                      is_producer_complete(completion_flags', o)
                         <=> is_producer_complete(completion_flags, o)
       /\ \A s \in StageNames :
             CleanupCompletionFlag(s) =>
                /\ ~is_producer_complete(completion_flags', s)
                /\ \A o \in StageNames \ {s} :
                      is_producer_complete(completion_flags', o)
                         <=> is_producer_complete(completion_flags, o)]_vars

\* one stage was marked and cleaned up, another is marked and was asked,
\* the third was never marked
MarkedCleanedUntouched ==
    /\ lifecycle["conversations"] = "cleaned"
    /\ lifecycle["attachments"] = "marked"
    /\ lifecycle["conversation_attachments"] = "new"
    /\ answer.op = "is_producer_complete" /\ answer.stage = "attachments" /\ answer.result

\* ---- C19 ----
\* the field of a stage in the first record with the id
FieldOf(records, field, ticket_id) ==
    LET hits == {i \in 1..Len(records) : records[i]["Ticket_ID"] = ticket_id}
    IN IF hits = {} THEN Unset
       ELSE records[CHOOSE k \in hits : \A j \in hits : k <= j][field]

\* C19: short-circuit propagation.  When the conversation-attachments worker
\* reads the Conversations status of the record it holds and the ledger has
\* Empty there, the call goes straight to its write with the value Empty; and
\* the write of a call that read Empty puts Empty into the record's
\* Conversation Attachments field, the call having made no wait for the
\* complete file, no download pass and no refresh.
ShortCircuit ==
    [][\A w \in Workers :
          /\ (GetStatusReturn(w) /\ FieldOf(Records, CONVERSATIONS_FIELD, tid[w]) = Empty) =>
                /\ pc'[w] = "set"
                /\ value'[w] = Empty
                /\ conversations_status'[w] = Empty
          /\ (SetCommit(w) /\ conversations_status[w] = Empty) =>
                /\ pc[w] = "set_cs"
                /\ FieldOf(Records', CONVERSATION_ATTACHMENTS_FIELD, tid[w]) = Empty
                /\ ~waited[w]
                /\ pass_ok[w] = <<>>
                /\ refreshes[w] = 0]_vars

\* the conversation-attachments worker has finished a call that read Empty:
\* the record has Empty in both fields, written by the two stages, and the
\* call made no wait, no pass and no refresh
ShortCircuitTaken ==
    /\ pc["w4"] = "loop"
    /\ conversations_status["w4"] = Empty
    /\ ~waited["w4"] /\ pass_ok["w4"] = <<>> /\ refreshes["w4"] = 0
    /\ \E t \in TicketIds :
          /\ written[CONVERSATIONS_FIELD][t] = Empty
          /\ written[CONVERSATION_ATTACHMENTS_FIELD][t] = Empty
          /\ FieldOf(Records, CONVERSATION_ATTACHMENTS_FIELD, t) = Empty
          /\ \A u \in TicketIds \ {t} : written[CONVERSATION_ATTACHMENTS_FIELD][u] = Unset

\* ---- C20 ----
\* what the passes recorded for a call say about its refreshes
RefreshDiscipline(w) ==
    /\ refreshes[w] <= 1
    /\ Len(pass_ok[w]) <= 2
    /\ refreshes[w] = 1 => (Len(pass_ok[w]) >= 1 /\ pass_ok[w][1] = {})
    /\ Len(pass_ok[w]) = 2 => refreshes[w] = 1

\* the outcome of a call that refreshed
RefreshedOutcome(w) ==
    IF Len(pass_ok[w]) = 2 /\ pass_ok[w][2] # {} THEN Done(pass_ok[w][2]) ELSE Empty

\* C20: refresh-once policy.  In a process call of an attachment stage the
\* listing is refreshed only after a first download pass with zero
\* successes, at most once, and at most two passes are made; the write of a
\* call that refreshed puts into the record's stage field the mapping of the
\* refreshed pass when that pass had a success, and Empty when it had none
\* or the refresh failed before a second pass.
RefreshOnce ==
    [][\A w \in Workers :
          /\ RefreshDiscipline(w)'
          /\ Refresh(w) => (Len(pass_ok[w]) = 1 /\ pass_ok[w][1] = {} /\ refreshes[w] = 0)
          /\ (SetCommit(w) /\ pc[w] = "set_cs" /\ refreshes[w] = 1) =>
                FieldOf(Records', stageOf(poolOf(w)), tid[w]) = RefreshedOutcome(w)]_vars

\* the attachments worker has finished a call whose first pass had no success
\* and whose refreshed pass downloaded item 1, and the ledger has that
\* mapping; the conversation-attachments worker has finished a call whose two
\* passes both had no success, and the ledger has Empty
RefreshedBothWays ==
    /\ pc["w1"] = "loop" /\ refreshes["w1"] = 1 /\ pass_ok["w1"] = <<{}, {1}>>
    /\ \E t \in TicketIds :
          /\ written[ATTACHMENTS_FIELD][t] = Done({1})
          /\ FieldOf(Records, ATTACHMENTS_FIELD, t) = Done({1})
          /\ \A u \in TicketIds \ {t} : written[ATTACHMENTS_FIELD][u] = Unset
    /\ pc["w4"] = "loop" /\ refreshes["w4"] = 1 /\ pass_ok["w4"] = <<{}, {}>>
    /\ \E t \in TicketIds :
          /\ written[CONVERSATION_ATTACHMENTS_FIELD][t] = Empty
          /\ FieldOf(Records, CONVERSATION_ATTACHMENTS_FIELD, t) = Empty
          /\ \A u \in TicketIds \ {t} : written[CONVERSATION_ATTACHMENTS_FIELD][u] = Unset

\* ---- C21 ----
\* a document a completed write left, or no document at all
IsComplete(doc) == ~doc.exists \/ doc.json = "array"

\* C21: atomic write.  The file at the ledger path is at every step a
\* complete document, and so is what a reader without the lock finds there;
\* the file changes only in the rename step, from the complete previous
\* document to the complete new one, and a writer killed anywhere inside the
\* write leaves the previous document at the path.
AtomicWrite ==
    [][/\ IsComplete(ledger') /\ IsComplete(peek')
       /\ ledger' # ledger =>
             /\ MergeReplace
             /\ ledger' = _write_records_unlocked(
                              merge_entries(_read_records_unlocked(ledger), new_entries).records)
       /\ ProducerCrash => ledger' = ledger]_vars

\* the producer was killed in the middle of writing the temporary file, is
\* back at its start, and a reader without the lock has found the previous
\* document, one record long, at the ledger path
CrashLeftPreviousDocument ==
    /\ pc[Producer] = "batch"
    /\ tmp_file = InvalidText
    /\ ledger = _write_records_unlocked(<<make_migration_entry(1)>>)
    /\ peek = ledger

\* ---- C22 ----
\* C22: missing or corrupt ledger.  While the ledger path holds no document,
\* a blank or unparsable text, or JSON that is not an array: whoever takes
\* the lock reads an empty list; a claim returns -1 and a finalize returns 0,
\* both leaving the file as it is and neither raising; and a merge writes a
\* JSON array holding exactly the entries it reports as added.
UnreadableIsEmpty ==
    [][ledger.json # "array" =>
          /\ \A p \in Procs : (p \in lock' /\ p \notin lock) => local'[p] = <<>>
          /\ \A w \in Workers :
                ClaimCommit(w) => (tid'[w] = -1 /\ ledger' = ledger /\ pc'[w] \in {"loop", "exited"})
          /\ FinalizeCommit =>
                (updated'[Finalizer] = 0 /\ ledger' = ledger /\ pc'[Finalizer] = "fin_ret")
          /\ MergeCommit =>
                /\ pc'[Producer] = "merged"
                /\ ledger'.exists /\ ledger'.json = "array"
                /\ Ids(ledger'.records) = added'
                /\ \A i \in 1..Len(added') :
                      ledger'.records[i] = make_migration_entry(added'[i])]_vars

\* the worker was told once that there is no work (its counter is 1, so the
\* claim came before any record was there), the finalizer has returned 0, and
\* the producer's merge has then written an array of the two entries it was
\* given
UnreadableHealed ==
    /\ pc[Producer] = "merged"
    /\ added = <<2, 1>>
    /\ ledger = _write_records_unlocked(<<make_migration_entry(2), make_migration_entry(1)>>)
    /\ pc["w1"] = "loop" /\ tid["w1"] = -1 /\ consecutive_empty_checks["w1"] = 1
    /\ pc[Finalizer] = "fin_ret" /\ updated[Finalizer] = 0

\* ---- C23 ----
\* the positions of a worker inside process_one*, outside the store calls
ExternalWork == {"process", "wait", "pass1", "refresh", "pass2"}

\* C23: process runs outside the lock.  A worker that waits for the complete
\* file, downloads or refreshes never holds the ledger lock; and however
\* long a worker stays there, every other worker at the top of its loop gets
\* its claim through (to an item or to its exit), and every other worker with
\* an outcome in hand gets its set-status call through.
ProcessOutsideLock ==
    /\ [](\A w \in Workers : pc[w] \in ExternalWork => w \notin lock)
    /\ \A v \in DownloadWorkers :
          /\ (pc[v] = "loop") ~> (pc[v] \in ExternalWork \cup {"exited"})
          /\ (pc[v] \in {"set", "except"}) ~> (pc[v] = "loop")

\* the attachments worker is in its first download pass for ticket 1 while
\* the conversation-attachments worker, which claimed after it, holds the
\* lock for its set-status call
WriteDuringDownload ==
    /\ pc["w1"] = "pass1" /\ tid["w1"] = 1
    /\ pc["w4"] = "set_cs" /\ lock = {"w4"}
    /\ FieldOf(Records, ATTACHMENTS_FIELD, 1) = InProgress

\* ---- C24 ----
\* q is the beginning of r
IsPrefixOf(q, r) == Len(q) <= Len(r) /\ \A i \in 1..Len(q) : q[i] = r[i]

\* C24: append-only ledger.  Whatever a merge, a claim, a set-status or a
\* finalize does to the document, the list of Ticket_IDs before the step is
\* the beginning of the list after it; the list grows only in a merge, and a
\* claim, a set-status and a finalize leave it as it is.
AppendOnly ==
    [][/\ IsPrefixOf(Ids(Records), Ids(Records'))
       /\ Ids(Records') # Ids(Records) => MergeCommit
       /\ ((\E w \in Workers : ClaimCommit(w) \/ SetCommit(w)) \/ FinalizeCommit) =>
             Ids(Records') = Ids(Records)]_vars

\* ticket 2 was appended first and ticket 1 after it; both were claimed and
\* written by the worker, a finalize sweep has run, and the order is still 2, 1
OrderKeptThroughOperations ==
    /\ Ids(Records) = <<2, 1>>
    /\ claimCount[ATTACHMENTS_FIELD][1] = 1 /\ claimCount[ATTACHMENTS_FIELD][2] = 1
    /\ IsFinal(written[ATTACHMENTS_FIELD][1]) /\ IsFinal(written[ATTACHMENTS_FIELD][2])
    /\ swept[ATTACHMENTS_FIELD] >= 1

\* ---- C25 ----
\* the place of a script in the order of starts, 0 if it was not started
StartedAt(script) ==
    IF \E i \in 1..Len(launched) : launched[i] = script
    THEN CHOOSE i \in 1..Len(launched) : launched[i] = script
    ELSE 0

\* C25: pipeline sequencing.  run_pipeline tries to start a consumer, and a
\* consumer's worker acts, only after details_producer has ended with exit
\* code 0; after a producer that failed or could not be started the pipeline
\* has stopped with no consumer started; the conversation-attachments
\* consumer is tried only when the conversations and the attachments
\* consumer were both started, and is started after both.
PipelineSequencing ==
    /\ \A c \in ConsumerScripts :
          proc[c] # "not_started" => proc[PRODUCER_SCRIPT] = "exited_ok"
    /\ \A w \in Workers : pc[w] # "loop" => proc[PRODUCER_SCRIPT] = "exited_ok"
    /\ (is_none(proc[PRODUCER_SCRIPT]) /\ rp # "wait1") =>
          (rp = "failed" /\ \A c \in ConsumerScripts : StartedAt(c) = 0)
    /\ proc[CONVERSATION_ATTACHMENTS_SCRIPT] # "not_started" =>
          /\ StartedAt(CONVERSATIONS_SCRIPT) > 0
          /\ StartedAt(ATTACHMENTS_SCRIPT) > 0
    /\ StartedAt(CONVERSATION_ATTACHMENTS_SCRIPT) > 0 =>
          /\ StartedAt(CONVERSATIONS_SCRIPT) < StartedAt(CONVERSATION_ATTACHMENTS_SCRIPT)
          /\ StartedAt(ATTACHMENTS_SCRIPT) < StartedAt(CONVERSATION_ATTACHMENTS_SCRIPT)

\* the pipeline has returned 0 after starting the four scripts in order, and
\* the worker of the last consumer has resolved ticket 1
PipelineStartedAll ==
    /\ rp = "done"
    /\ launched = <<PRODUCER_SCRIPT, CONVERSATIONS_SCRIPT, ATTACHMENTS_SCRIPT,
                    CONVERSATION_ATTACHMENTS_SCRIPT>>
    /\ Ids(Records) = <<1>>
    /\ IsFinal(written[CONVERSATION_ATTACHMENTS_FIELD][1])

\* ---- C26 ----
\* C26: the finalizer's sweep is one critical section.  From its read to its
\* write a finalizer holds the lock of its store (the store's finalizers the
\* file lock, the orchestrator's finalize_in_progress_attachments its
\* write_lock), so that what it writes is what it read with the in-progress
\* fields resolved and nothing committed in between is written over.
SweepUnderOneLock ==
    /\ \A p \in Mains \cup {Finalizer} : pc[p] = "fin_cs" => p \in lock
    /\ pc[OrchMain] \in {"o_sweep_cs", "o_evaluate", "o_sweep_write"} => OrchMain \in write_lock

\* ---- C30 ----
\* C30: orchestrator drain.  A worker of attachments_worker_loop claims a
\* record, in the drain branch or after it, only when it has set a status
\* for every record it claimed before, and returns only then; so the final
\* sweep finds no record in progress.
DrainProcessesEveryClaim ==
    [][/\ \A t \in OrchWorkers :
             /\ OClaimCommit(t) => unresolved[t] = {}
             /\ pc'[t] = "o_exited" => unresolved'[t] = {}
       /\ OSweepEvaluate => StuckIds(local[OrchMain], ATTACHMENTS_FIELD) = {}]_vars

\* ---- C29 ----
\* the positions of worker_loop in which no claimed id is pending: the top
\* of the loop (the check of the stop flag), inside the claim call, returned
AtLoopTop == {"loop", "claim_cs", "exited"}

\* C29: every claim is resolved by its claimant.  A claim call that returns
\* an id sends its worker into process_one*; from there the worker comes
\* back to the top of its loop (where it checks the stop flag, claims again
\* or exits) only through the commit of a set-status call for that id and
\* its own stage, which leaves the field final; and it does come back, also
\* when the stop flag is set meanwhile.
ClaimantResolves ==
    /\ [][\A w \in ClaimantWorkers :
             /\ (pc[w] = "claim_cs" /\ tid'[w] # -1) => pc'[w] = "process"
             /\ (pc[w] \notin AtLoopTop /\ pc'[w] \in AtLoopTop) =>
                   /\ pc[w] \in {"set_cs", "except_cs"}
                   /\ tid[w] \in TicketIds
                   /\ FieldOf(Records', stageOf(poolOf(w)), tid[w]) = status_to_set(w)
                   /\ IsFinal(status_to_set(w))]_vars
    /\ \A w \in ClaimantWorkers : \A t \in TicketIds :
          (pc[w] = "process" /\ tid[w] = t)
             ~> (pc[w] = "loop" /\ IsFinal(FieldOf(Records, stageOf(poolOf(w)), t)))

\* a worker that left through the stop flag straight after the set-status
\* call for the id it had claimed, with records of its stage still unset
StoppedAfterResolving ==
    \E w \in ClaimantWorkers :
       /\ pc[w] = "exited"
       /\ stop_flag[poolOf(w)]
       /\ window[w] # <<>>
       /\ ~window[w][Len(window[w])]
       /\ \E t \in TicketIds :
             /\ claimCount[stageOf(poolOf(w))][t] = 1
             /\ IsFinal(FieldOf(Records, stageOf(poolOf(w)), t))
       /\ \E i \in 1..Len(Records) : Records[i][stageOf(poolOf(w))] = Unset

\* ---- C27 ----
\* every record has its three stage fields final ("NA" or a mapping)
AllStagesFinal ==
    \A i \in 1..Len(Records) : \A s \in Stages : IsFinal(Records[i][s])

\* C27: pipeline completion.  With the producer finished before the
\* consumers start, a finite ledger and no crash, every worker of the three
\* consumer pools eventually returns and every main() ends its shutdown
\* sweep; and whenever the workers of all three pools have returned, every
\* record has its three stage fields final, none null and none "I".
PipelineCompletes ==
    /\ \A w \in CompletionWorkers : <>(pc[w] = "exited")
    /\ <>(\A m \in CompletionPools : pc[m] = "done")
    /\ []((\A w \in CompletionWorkers : pc[w] = "exited") => AllStagesFinal)

\* the three consumers have ended, with a stage of a record resolved
\* through the except clause and a mapping in another
CompletedAllStages ==
    /\ \A m \in CompletionPools : pc[m] = "done"
    /\ Len(Records) >= 1
    /\ AllStagesFinal
    /\ \E s \in Stages : failed[s] # {}
    /\ \E i \in 1..Len(Records) : \E s \in Stages : Records[i][s].tag = "map"

\* ---- C28 ----
\* C28: with the producer running beside the consumer pool of a stage,
\* every record the producer appends is eventually claimed for the stage by
\* a worker of the pool; the pool has not exited while a record of the
\* ledger is still null for its stage.
AppendedIsClaimed ==
    /\ \A t \in TicketIds :
          (\E i \in 1..Len(Records) : Records[i]["Ticket_ID"] = t)
             ~> (claimCount[stageOf(poolOf(CatchUpWorker))][t] > 0)
    /\ [](pc[CatchUpWorker] = "exited" =>
             \A i \in 1..Len(Records) : Records[i][stageOf(poolOf(CatchUpWorker))] # Unset)

\* ---- C31 ----
\* the positions at which a document changed into another
ChangedAt(before, after) == {i \in 1..Len(before) : after[i] # before[i]}

\* one field of at most one record differs, and nothing else
OneFieldChanged(before, after, field) ==
    /\ Len(after) = Len(before)
    /\ Cardinality(ChangedAt(before, after)) <= 1
    /\ \A i \in ChangedAt(before, after) :
          /\ DOMAIN after[i] = DOMAIN before[i]
          /\ \A k \in DOMAIN before[i] \ {field} : after[i][k] = before[i][k]

\* C31: frame of claim and set-status.  A claim changes the stage field of
\* one record, the one whose id it returns, from null to "I", and nothing
\* when it returns -1; a set-status changes the stage field of one record
\* with the given id to the given value; every other record, the record's
\* id and its other stage fields stay as they are, and a set-status for an
\* id that is not in the ledger changes no record.
ClaimSetFrame ==
    [][/\ (pc[Finalizer] = "claim_cs" /\ pc'[Finalizer] = "idle") =>
             /\ OneFieldChanged(Records, Records', fin)
             /\ \A i \in ChangedAt(Records, Records') :
                   /\ Records[i][fin] = Unset
                   /\ Records'[i][fin] = InProgress
                   /\ Records[i]["Ticket_ID"] = cid'
             /\ cid' = -1 => Records' = Records
       /\ (pc[Finalizer] = "set_cs" /\ pc'[Finalizer] = "idle") =>
             /\ OneFieldChanged(Records, Records', fin)
             /\ \A i \in ChangedAt(Records, Records') :
                   /\ Records[i]["Ticket_ID"] = cid
                   /\ Records'[i][fin] = cvalue
             /\ (\A i \in 1..Len(Records) : Records[i]["Ticket_ID"] # cid) => Records' = Records]_vars

\* the client has set a status for an id that is not in the ledger, and a
\* record of the ledger holds a claim in one stage beside a final value and
\* a null in the two others
FrameKeptAcrossStages ==
    /\ pc[Finalizer] = "idle"
    /\ cid \in TicketIds
    /\ cvalue \in Outcomes
    /\ \A i \in 1..Len(Records) : Records[i]["Ticket_ID"] # cid
    /\ \E i \in 1..Len(Records) :
          /\ \E s \in Stages : Records[i][s] = InProgress
          /\ \E s \in Stages : IsFinal(Records[i][s])
          /\ \E s \in Stages : Records[i][s] = Unset

CrossStageConsistent ==
    \A i \in 1..Len(Records) :
       (/\ IsFinal(Records[i][CONVERSATIONS_FIELD])
        /\ IsFinal(Records[i][CONVERSATION_ATTACHMENTS_FIELD])
        /\ Records[i][CONVERSATIONS_FIELD] = Empty)
          => Records[i][CONVERSATION_ATTACHMENTS_FIELD] = Empty

\* ---- C34 ----
StoredValues == {Unset, InProgress, Empty} \cup Mappings

AtRequest(p) ==
    \/ p = Producer /\ pc[p] = "batch"
    \/ p \in Workers /\ pc[p] \in {"loop", "set", "except"}
    \/ p \in Workers /\ pc[p] = "process" /\ stageOf(poolOf(p)) = CONVERSATION_ATTACHMENTS_FIELD
    \/ p \in Mains /\ pc[p] = "join" /\ \A w \in Workers : poolOf(w) = p => pc[w] = "exited"

LockUsers == {Producer, LockMain} \cup LockWorkers

\* C35: deadlock freedom.  No store call is begun by a process that holds
\* the lock (the sweep's evaluator and the status read before the copy of
\* "NA" included); whenever a process stands before a store call the lock is
\* free or held by a process inside its critical section; and every worker
\* and main() that stands before a store call gets the lock, the producer
\* gets it for its next batch or has finished.
NoSelfDeadlock ==
    /\ [](\A p \in LockUsers : AtRequest(p) => p \notin lock)
    /\ []((\E p \in LockUsers : AtRequest(p)) =>
              (lock = {} \/ \E h \in lock : pc[h] \in CriticalPositions /\ ~AtRequest(h)))
    /\ \A p \in LockUsers \ {Producer} : AtRequest(p) ~> (p \in lock)
    /\ (pc[Producer] = "batch") ~> (pc[Producer] \in {"merge_cs", "done"})

\* the conversation-attachments worker has read "NA" under the lock, has
\* released it and stands before its set-status call, while the
\* conversations worker holds the lock for its next claim
CopyWaitsForClaim ==
    /\ pc["w4"] = "set" /\ is_na(conversations_status["w4"]) /\ value["w4"] = Empty
    /\ pc["w3"] = "claim_cs" /\ lock = {"w3"}
    /\ pc[Producer] = "done"

\* ---- C36 ----
\* the file of entry i is in the ticket directory when the loop comes to it:
\* it was there before the pass, or an earlier complete entry with the same
\* destination had it written
ExistedAt(call, i) ==
    LET dest == sanitize_filename(call.list[i].name)
    IN \/ dest \in call.disk
       \/ \E j \in 1..(i - 1) :
             /\ is_complete(call.list[j])
             /\ sanitize_filename(call.list[j].name) = dest
             /\ call.ok[j] # "failed"

\* C36: attachment-stage outcome.  In a download pass download_file is never
\* called for an entry whose destination exists (the entry counts as a
\* success); the keys of the mapping are exactly the ids of the complete
\* entries whose destination existed or whose download returned True in this
\* pass; an entry without id, name or url is never in the mapping.
DownloadOutcome ==
    dl_out.called =>
       /\ \A k \in 1..Len(dl_out.downloads) :
             LET d == dl_out.downloads[k]
             IN /\ sanitize_filename(dl_in.list[d.item].name) \notin d.disk
                /\ ~ExistedAt(dl_in, d.item)
                /\ is_complete(dl_in.list[d.item])
       /\ dl_out.mapping =
             {dl_in.list[i].id : i \in {j \in 1..Len(dl_in.list) :
                  /\ is_complete(dl_in.list[j])
                  /\ ExistedAt(dl_in, j) \/ dl_in.ok[j] = "ok"}}
       /\ \A i \in 1..Len(dl_in.list) :
             ~is_complete(dl_in.list[i]) => dl_in.list[i].id \notin dl_out.mapping

\* two entries with one destination and nothing on disk: the download of the
\* first breaks off and returns False, the second finds the file and is
\* counted without a download
SecondCountedWithoutDownload ==
    /\ dl_out.called
    /\ dl_in.disk = {} /\ Len(dl_in.list) = 2
    /\ dl_in.list[1].name = "a?b" /\ dl_in.list[2].name = "a_b"
    /\ dl_in.ok[1] = "partial"
    /\ Len(dl_out.downloads) = 1 /\ dl_out.downloads[1].item = 1
    /\ dl_out.mapping = {dl_in.list[2].id}

\* ---- C37 ----
\* C37: bounded artifact wait.  A process call sleeps at most
\* max_wait_for_json_seconds / 0.5 times for the ticket's complete file, and
\* only while the file is absent; it leaves the loop only with the file
\* there or the bound reached; with the file still absent it sets "NA" and
\* returns, with the file there it goes on; and a worker that has begun to
\* wait always comes to its set-status call or to the except clause.
BoundedWait ==
    /\ [](\A w \in WaitWorkers : poll[w] <= max_wait_for_json_polls(stageOf(poolOf(w))))
    /\ [][\A w \in WaitWorkers :
            /\ poll'[w] > poll[w] => (tid[w] \notin complete_files /\ poll'[w] = poll[w] + 1)
            /\ (pc[w] = "polling" /\ pc'[w] = "polled") =>
                  \/ tid[w] \in complete_files
                  \/ poll[w] = max_wait_for_json_polls(stageOf(poolOf(w)))
            /\ (pc[w] = "polled" /\ pc'[w] # "polled") =>
                  IF tid[w] \in complete_files
                  THEN pc'[w] \in {"set", "except"}
                  ELSE pc'[w] = "set" /\ value'[w] = Empty]_vars
    /\ \A w \in WaitWorkers : (pc[w] = "polling") ~> (pc[w] \in {"set", "except"})

\* the attachments worker slept once, found the file and has a mapping to
\* set; the conversations worker slept to its bound for another ticket,
\* whose file is not there, and has "NA" to set
OneFoundOneTimedOut ==
    /\ pc["w1"] = "set" /\ poll["w1"] = 1 /\ tid["w1"] \in complete_files
    /\ value["w1"] \in Mappings
    /\ pc["w3"] = "set" /\ poll["w3"] = max_wait_for_json_polls(CONVERSATIONS_FIELD)
    /\ tid["w3"] \notin complete_files /\ tid["w3"] # -1
    /\ value["w3"] = Empty
====
